---- MODULE Spec2Model ----
(***************************************************************************)
(* Model of the example automation scripts of bruno-ibm-cloud-vpc:         *)
(*   - examples/error_handling_retry.py  (BrunoClient, retry wrapper)      *)
(*   - examples/pagination_example.py    (cursor pagination loop)          *)
(*   - examples/workflow_chaining.py     (VPCWorkflow step runner)         *)
(*   - examples/python_automation.py     (inventory, costs, topology)      *)
(* The external "bru" process is the environment: every invocation draws   *)
(* its outcome from a small set.  Each component has its own               *)
(* specification (SpecRetry, SpecAuth, SpecPaginate, SpecWorkflow,         *)
(* SpecInventory, SpecTopology); the variables of the other components     *)
(* stay at their initial values.                                           *)
(***************************************************************************)
EXTENDS Integers, Sequences, FiniteSets, TLC

VARIABLES
    \* ---- BrunoClient (error_handling_retry.py) ----
    max_retries,          \* self.max_retries
    initial_retry_delay,  \* self.initial_retry_delay (seconds)
    max_retry_delay,      \* self.max_retry_delay (seconds)
    backoff_factor,       \* self.backoff_factor
    token_expires_at,     \* self.token_expires_at (NoTime = None)
    last_auth_time,       \* self.last_auth_time   (NoTime = None)
    now,                  \* datetime.now(), seconds
    rq_pc,                \* position of request_with_retry: idle, loop, done
    retry_count,          \* local retry_count
    delay,                \* local delay
    rq_result,            \* what the call gave its caller: none, response, or the exception raised
    rq_trace,             \* external events of the current call, in order
    rq_calls,             \* number of request_with_retry calls made on the client
    \* ---- paginate_list_vpcs (pagination_example.py) ----
    pg_limit,             \* argument limit
    pg_max_pages,         \* argument max_pages: <<>> is None, <<k>> is the integer k
    pg_pc,                \* position of paginate_list_vpcs: idle, loop, done
    page_num,             \* local page_num
    cursor,               \* local cursor (optional string)
    all_vpcs,             \* local all_vpcs
    pg_ret,               \* the returned list
    pg_trace,             \* invocations of the list request with what each gave
    \* ---- VPCWorkflow (workflow_chaining.py) ----
    wf_cfg,               \* constructor arguments image_id, ssh_key_id, resource_group_id, create_floating_ip
    steps,                \* self.steps
    current_step_index,   \* self.current_step_index
    workflow_status,      \* self.workflow_status
    vpc_id,               \* self.vpc_id
    subnet_id,            \* self.subnet_id
    sg_id,                \* self.sg_id
    instance_id,          \* self.instance_id
    floating_ip_id,       \* self.floating_ip_id
    floating_ip_address,  \* self.floating_ip_address
    wf_pc,                \* position of execute(): idle, build, loop, running, returned
    wf_i,                 \* loop variable i of execute()
    wf_ret,               \* value returned by the last execute(): none, True, False
    wf_trace,             \* external events of the current execute(), in order
    wf_runs,              \* number of execute() calls made on the workflow
    \* ---- generate_inventory_report, estimate_vpc_costs (python_automation.py) ----
    inv_pc,               \* position: idle, loop, done (report returned), costed
    inventory,            \* local inventory: the entries recorded so far, by resource type
    inv_trace,            \* invocations of the list requests with what each gave
    costs,                \* the dictionary estimate_vpc_costs returned
    \* ---- map_vpc_topology, export_topology_to_dot (python_automation.py) ----
    tp_pc,                \* position: idle, fetch, mapped, raised, exported
    tp_lists,             \* the lists fetched so far: vpcs, subnets, instances, security groups
    topology,             \* the topology map_vpc_topology returned, in insertion order
    dot,                  \* the lines export_topology_to_dot wrote
    \* ---- batch_create_instances (python_automation.py) ----
    bt_pc,                \* position: idle, loop, done
    bt_count,             \* argument count
    bt_i,                 \* loop variable i
    instance_ids,         \* local instance_ids
    bt_ret,               \* the returned list
    bt_trace              \* invocations of the create request and sleeps, in order

retryVars == <<max_retries, initial_retry_delay, max_retry_delay, backoff_factor,
               token_expires_at, last_auth_time, now, rq_pc, retry_count, delay,
               rq_result, rq_trace, rq_calls>>

pageVars == <<pg_limit, pg_max_pages, pg_pc, page_num, cursor, all_vpcs, pg_ret, pg_trace>>

idVars == <<vpc_id, subnet_id, sg_id, instance_id, floating_ip_id, floating_ip_address>>

wfVars == <<wf_cfg, steps, current_step_index, workflow_status, idVars,
            wf_pc, wf_i, wf_ret, wf_trace, wf_runs>>

invVars == <<inv_pc, inventory, inv_trace, costs>>

topoVars == <<tp_pc, tp_lists, topology, dot>>

batchVars == <<bt_pc, bt_count, bt_i, instance_ids, bt_ret, bt_trace>>

autoVars == <<invVars, topoVars, batchVars>>

vars == <<retryVars, pageVars, wfVars, autoVars>>

\* ------------------------------------------------------------------------
\* Bounds of the model
\* ------------------------------------------------------------------------
MaxRetriesBound == 2     \* max_retries ranges over 0..MaxRetriesBound
MaxInitialDelay == 5     \* initial_retry_delay ranges over 0..MaxInitialDelay
MaxDelayCap == 4         \* max_retry_delay ranges over 1..MaxDelayCap
MaxFactor == 3           \* backoff_factor ranges over 0..MaxFactor
MaxCalls == 2            \* request_with_retry calls per client
MaxLimit == 2            \* limit ranges over 1..MaxLimit
MaxPageItems == 2        \* a page carries 0..MaxPageItems items
MaxPagesBound == 3       \* max_pages ranges over None and 0..MaxPagesBound
MaxFetch == 4            \* list requests the environment answers in one pagination
MaxRuns == 2             \* execute() calls per workflow object
MaxClock == 7200         \* the clock stops at MaxClock seconds
MaxItems == 2            \* a list response carries 0..MaxItems items
MaxListed == 2           \* a list the topology is built from carries 0..MaxListed resources
MaxCount == 3            \* count ranges over 0..MaxCount

\* ------------------------------------------------------------------------
\* Helpers
\* ------------------------------------------------------------------------
NoTime == -1

Min(a, b) == IF a <= b THEN a ELSE b

RECURSIVE Pow(_, _)
Pow(b, k) == IF k = 0 THEN 1 ELSE b * Pow(b, k - 1)

\* ========================================================================
\* error_handling_retry.py
\* ========================================================================
TokenLifetime == 3600
RefreshWindow == 300

\* What one run of the request command can give the try block.
AttemptOutcomes == {"ok", "CalledProcessError", "JSONDecodeError", "AuthenticationError",
                    "RateLimitError", "ResourceNotFoundError", "ValidationError",
                    "BrunoAPIError"}
AuthOutcomes == {"ok", "CalledProcessError"}

\* _should_refresh_token, lines 101-106
ShouldRefreshTokenAtExpiry ==
    IF token_expires_at = NoTime THEN TRUE
    ELSE now >= token_expires_at
ShouldRefreshToken ==
    IF token_expires_at = NoTime THEN TRUE
    ELSE now >= token_expires_at - RefreshWindow

\* authenticate(force) returns early without running the IAM command.
AuthSkipped(force) == ~force /\ ~ShouldRefreshToken

AuthEvent(force, a) == [ev |-> "auth", force |-> force, outcome |-> a, d |-> 0]
RunEvent(o) == [ev |-> "run", force |-> FALSE, outcome |-> o, d |-> 0]
SleepEvent(d) == [ev |-> "sleep", force |-> FALSE, outcome |-> "ok", d |-> d]

\* while retry_count <= self.max_retries
LoopCondAlways(rc, n) == TRUE
LoopCondOff(rc, n) == rc < n
LoopCond(rc, n) == rc <= n

\* if retry_count < self.max_retries (transport and rate-limit handlers)
CanRetryOffByOne(rc, n) == rc <= n
CanRetry(rc, n) == rc < n

\* if retry_count == 0 (authentication handler)
MayRefreshAlways(rc) == TRUE
MayRefresh(rc) == rc = 0

\* delay = min(delay * self.backoff_factor, self.max_retry_delay)
NextDelayUncapped(d, f, cap) == d * f
NextDelay(d, f, cap) == Min(d * f, cap)

RetryInit ==
    /\ max_retries \in 0..MaxRetriesBound
    /\ initial_retry_delay \in 0..MaxInitialDelay
    /\ max_retry_delay \in 1..MaxDelayCap
    /\ backoff_factor \in 0..MaxFactor
    /\ token_expires_at = NoTime
    /\ last_auth_time = NoTime
    /\ now = 0
    /\ rq_pc = "idle"
    /\ retry_count = 0
    /\ delay = 0
    /\ rq_result = "none"
    /\ rq_trace = <<>>
    /\ rq_calls = 0

PageIdle ==
    /\ pg_limit = 1
    /\ pg_max_pages = <<>>
    /\ pg_pc = "idle"
    /\ page_num = 1
    /\ cursor = [some |-> FALSE, val |-> <<>>]
    /\ all_vpcs = <<>>
    /\ pg_ret = <<>>
    /\ pg_trace = <<>>

\* Python strings are one-element tuples, None is the empty tuple.
NoneS == <<>>
Str(x) == <<x>>
Truthy(v) == v # NoneS /\ v # Str("")

WorkflowIdle ==
    /\ wf_cfg = [image_id |-> NoneS, ssh_key_id |-> NoneS, resource_group_id |-> NoneS,
                 create_floating_ip |-> TRUE]
    /\ steps = <<>>
    /\ current_step_index = 0
    /\ workflow_status = "not_started"
    /\ vpc_id = NoneS
    /\ subnet_id = NoneS
    /\ sg_id = NoneS
    /\ instance_id = NoneS
    /\ floating_ip_id = NoneS
    /\ floating_ip_address = NoneS
    /\ wf_pc = "idle"
    /\ wf_i = 0
    /\ wf_ret = "none"
    /\ wf_trace = <<>>
    /\ wf_runs = 0

InventoryIdle ==
    /\ inv_pc = "idle"
    /\ inventory = <<>>
    /\ inv_trace = <<>>
    /\ costs = <<>>

TopologyIdle ==
    /\ tp_pc = "idle"
    /\ tp_lists = <<>>
    /\ topology = <<>>
    /\ dot = <<>>

BatchIdle ==
    /\ bt_pc = "idle"
    /\ bt_count = 0
    /\ bt_i = 0
    /\ instance_ids = <<>>
    /\ bt_ret = <<>>
    /\ bt_trace = <<>>

configVars == <<max_retries, initial_retry_delay, max_retry_delay, backoff_factor>>

\* A variant that enters the loop although the first authentication failed.
RequestWithRetryGoesOn ==
    /\ rq_pc \in {"idle", "done"}
    /\ rq_calls < MaxCalls
    /\ rq_calls' = rq_calls + 1
    /\ retry_count' = 0
    /\ delay' = initial_retry_delay
    /\ IF AuthSkipped(FALSE)
       THEN /\ rq_trace' = <<>>
            /\ UNCHANGED <<token_expires_at, last_auth_time>>
       ELSE \E a \in AuthOutcomes :
              /\ rq_trace' = <<AuthEvent(FALSE, a)>>
              /\ IF a = "ok"
                 THEN /\ last_auth_time' = now
                      /\ token_expires_at' = now + TokenLifetime
                 ELSE UNCHANGED <<token_expires_at, last_auth_time>>
    /\ rq_pc' = "loop"
    /\ rq_result' = "none"
    /\ UNCHANGED <<configVars, now>>
    /\ UNCHANGED <<pageVars, wfVars, autoVars>>

\* request_with_retry, lines 219-222: authenticate() then initialise the locals.
RequestWithRetry ==
    /\ rq_pc \in {"idle", "done"}
    /\ rq_calls < MaxCalls
    /\ rq_calls' = rq_calls + 1
    /\ retry_count' = 0
    /\ delay' = initial_retry_delay
    /\ IF AuthSkipped(FALSE)
       THEN /\ rq_trace' = <<>>
            /\ rq_pc' = "loop"
            /\ rq_result' = "none"
            /\ UNCHANGED <<token_expires_at, last_auth_time>>
       ELSE \E a \in AuthOutcomes :
              /\ rq_trace' = <<AuthEvent(FALSE, a)>>
              /\ IF a = "ok"
                 THEN /\ last_auth_time' = now
                      /\ token_expires_at' = now + TokenLifetime
                      /\ rq_pc' = "loop"
                      /\ rq_result' = "none"
                 ELSE /\ rq_pc' = "done"
                      /\ rq_result' = "AuthenticationError"
                      /\ UNCHANGED <<token_expires_at, last_auth_time>>
    /\ UNCHANGED <<configVars, now>>
    /\ UNCHANGED <<pageVars, wfVars, autoVars>>

AtAttempt == rq_pc = "loop" /\ LoopCond(retry_count, max_retries)

\* lines 229-239: the command succeeds and its response is returned.
AttemptOk ==
    /\ AtAttempt
    /\ rq_trace' = Append(rq_trace, RunEvent("ok"))
    /\ rq_pc' = "done"
    /\ rq_result' = "response"
    /\ UNCHANGED <<configVars, token_expires_at, last_auth_time, now, retry_count, delay, rq_calls>>
    /\ UNCHANGED <<pageVars, wfVars, autoVars>>

\* Shared body of the transport (241-252) and rate-limit (269-278) handlers.
BackoffOrRaise(o, raised) ==
    IF CanRetry(retry_count, max_retries)
    THEN /\ rq_trace' = rq_trace \o <<RunEvent(o), SleepEvent(delay)>>
         /\ now' = now + delay
         /\ delay' = NextDelay(delay, backoff_factor, max_retry_delay)
         /\ retry_count' = retry_count + 1
         /\ UNCHANGED <<rq_pc, rq_result>>
    ELSE /\ rq_trace' = Append(rq_trace, RunEvent(o))
         /\ rq_pc' = "done"
         /\ rq_result' = raised
         /\ UNCHANGED <<now, delay, retry_count>>

\* lines 241-252: except subprocess.CalledProcessError
AttemptProcessError ==
    /\ AtAttempt
    /\ BackoffOrRaise("CalledProcessError", "BrunoAPIError")
    /\ UNCHANGED <<configVars, token_expires_at, last_auth_time, rq_calls>>
    /\ UNCHANGED <<pageVars, wfVars, autoVars>>

\* lines 269-278: except RateLimitError (re-raised when the budget is spent)
AttemptRateLimit ==
    /\ AtAttempt
    /\ BackoffOrRaise("RateLimitError", "RateLimitError")
    /\ UNCHANGED <<configVars, token_expires_at, last_auth_time, rq_calls>>
    /\ UNCHANGED <<pageVars, wfVars, autoVars>>

\* lines 254-257: except json.JSONDecodeError
AttemptJSONErrorRetried ==
    /\ AtAttempt
    /\ BackoffOrRaise("JSONDecodeError", "BrunoAPIError")
    /\ UNCHANGED <<configVars, token_expires_at, last_auth_time, rq_calls>>
    /\ UNCHANGED <<pageVars, wfVars, autoVars>>
AttemptJSONError ==
    /\ AtAttempt
    /\ rq_trace' = Append(rq_trace, RunEvent("JSONDecodeError"))
    /\ rq_pc' = "done"
    /\ rq_result' = "BrunoAPIError"
    /\ UNCHANGED <<configVars, token_expires_at, last_auth_time, now, retry_count, delay, rq_calls>>
    /\ UNCHANGED <<pageVars, wfVars, autoVars>>

\* A variant whose failed forced authentication forgets the cached token.
AttemptAuthErrorForgetsToken ==
    /\ AtAttempt
    /\ IF MayRefresh(retry_count)
       THEN \E a \in AuthOutcomes :
              /\ rq_trace' = rq_trace \o <<RunEvent("AuthenticationError"), AuthEvent(TRUE, a)>>
              /\ IF a = "ok"
                 THEN /\ last_auth_time' = now
                      /\ token_expires_at' = now + TokenLifetime
                      /\ retry_count' = retry_count + 1
                      /\ UNCHANGED <<rq_pc, rq_result>>
                 ELSE /\ rq_pc' = "done"
                      /\ rq_result' = "AuthenticationError"
                      /\ last_auth_time' = NoTime
                      /\ token_expires_at' = NoTime
                      /\ UNCHANGED retry_count
       ELSE /\ rq_trace' = Append(rq_trace, RunEvent("AuthenticationError"))
            /\ rq_pc' = "done"
            /\ rq_result' = "AuthenticationError"
            /\ UNCHANGED <<token_expires_at, last_auth_time, retry_count>>
    /\ UNCHANGED <<configVars, now, delay, rq_calls>>
    /\ UNCHANGED <<pageVars, wfVars, autoVars>>

\* lines 259-267: except AuthenticationError
AttemptAuthError ==
    /\ AtAttempt
    /\ IF MayRefresh(retry_count)
       THEN \E a \in AuthOutcomes :
              /\ rq_trace' = rq_trace \o <<RunEvent("AuthenticationError"), AuthEvent(TRUE, a)>>
              /\ IF a = "ok"
                 THEN /\ last_auth_time' = now
                      /\ token_expires_at' = now + TokenLifetime
                      /\ retry_count' = retry_count + 1
                      /\ UNCHANGED <<rq_pc, rq_result>>
                 ELSE /\ rq_pc' = "done"
                      /\ rq_result' = "AuthenticationError"
                      /\ UNCHANGED <<token_expires_at, last_auth_time, retry_count>>
       ELSE /\ rq_trace' = Append(rq_trace, RunEvent("AuthenticationError"))
            /\ rq_pc' = "done"
            /\ rq_result' = "AuthenticationError"
            /\ UNCHANGED <<token_expires_at, last_auth_time, retry_count>>
    /\ UNCHANGED <<configVars, now, delay, rq_calls>>
    /\ UNCHANGED <<pageVars, wfVars, autoVars>>

\* No except clause matches: the exception leaves request_with_retry as it is.
UncaughtKinds == AttemptOutcomes \ {"ok", "CalledProcessError", "JSONDecodeError",
                                    "AuthenticationError", "RateLimitError"}

AttemptUncaughtRetried ==
    /\ AtAttempt
    /\ \E o \in UncaughtKinds : BackoffOrRaise(o, o)
    /\ UNCHANGED <<configVars, token_expires_at, last_auth_time, rq_calls>>
    /\ UNCHANGED <<pageVars, wfVars, autoVars>>
AttemptUncaught ==
    /\ AtAttempt
    /\ \E o \in UncaughtKinds :
         /\ rq_trace' = Append(rq_trace, RunEvent(o))
         /\ rq_result' = o
    /\ rq_pc' = "done"
    /\ UNCHANGED <<configVars, token_expires_at, last_auth_time, now, retry_count, delay, rq_calls>>
    /\ UNCHANGED <<pageVars, wfVars, autoVars>>

\* line 280: the while condition is false.
LoopExit ==
    /\ rq_pc = "loop"
    /\ ~LoopCond(retry_count, max_retries)
    /\ rq_pc' = "done"
    /\ rq_result' = "BrunoAPIError"
    /\ UNCHANGED <<configVars, token_expires_at, last_auth_time, now, retry_count, delay,
                   rq_trace, rq_calls>>
    /\ UNCHANGED <<pageVars, wfVars, autoVars>>

RetryNext ==
    \/ RequestWithRetry
    \/ AttemptOk
    \/ AttemptProcessError
    \/ AttemptRateLimit
    \/ AttemptJSONError
    \/ AttemptAuthError
    \/ AttemptUncaught
    \/ LoopExit

InitRetry == RetryInit /\ PageIdle /\ WorkflowIdle /\ InventoryIdle /\ TopologyIdle /\ BatchIdle

SpecRetry == InitRetry /\ [][RetryNext]_vars

\* ---- observations on the trace of the current call ----
IsRun(e) == e.ev = "run"
IsSleep(e) == e.ev = "sleep"
IsForcedAuth(e) == e.ev = "auth" /\ e.force
Runs == SelectSeq(rq_trace, IsRun)
Sleeps == SelectSeq(rq_trace, IsSleep)
Attempts == Len(Runs)
Refreshes == Len(SelectSeq(rq_trace, IsForcedAuth))

AllRuns(o) == \A i \in 1..Len(Runs) : Runs[i].outcome = o

\* ------------------------------------------------------------------------
\* Claims on the retry wrapper
\* ------------------------------------------------------------------------

\* C1: a call whose request command fails with CalledProcessError on every
\* attempt runs the command exactly max_retries + 1 times and then raises
\* BrunoAPIError; it never runs it more often than that on the way.
C1_TransportAttempts ==
    (Attempts > 0 /\ AllRuns("CalledProcessError")) =>
        /\ Attempts <= max_retries + 1
        /\ rq_pc = "done" => (Attempts = max_retries + 1 /\ rq_result = "BrunoAPIError")

C1_Witness ==
    /\ rq_pc = "done"
    /\ max_retries = MaxRetriesBound
    /\ Attempts = max_retries + 1
    /\ AllRuns("CalledProcessError")
    /\ rq_result = "BrunoAPIError"

\* C3 (as claimed): the delay slept after the k-th failed attempt, k = 0, 1, ...,
\* is min(initial_retry_delay * backoff_factor^k, max_retry_delay).
C3_DelayClosedForm ==
    \A k \in 1..Len(Sleeps) :
        Sleeps[k].d = Min(initial_retry_delay * Pow(backoff_factor, k - 1), max_retry_delay)

\* C4 (as claimed): the delays slept in one call never decrease and never
\* exceed max_retry_delay.
C4_DelayMonotoneCapped ==
    \A k \in 1..Len(Sleeps) :
        /\ Sleeps[k].d <= max_retry_delay
        /\ k > 1 => Sleeps[k - 1].d <= Sleeps[k].d

\* C5: one call forces at most one credential refresh, and a second
\* consecutive authentication failure ends the call with AuthenticationError
\* with nothing (no refresh, no run) after it.
C5_SingleRefresh ==
    /\ Refreshes <= 1
    /\ \A j \in 1..Len(rq_trace) :
         (/\ IsRun(rq_trace[j]) /\ rq_trace[j].outcome = "AuthenticationError"
          /\ \E i \in 1..(j - 1) :
               /\ IsRun(rq_trace[i]) /\ rq_trace[i].outcome = "AuthenticationError"
               /\ \A m \in (i + 1)..(j - 1) : ~IsRun(rq_trace[m]))
         => /\ j = Len(rq_trace)
            /\ rq_pc = "done"
            /\ rq_result = "AuthenticationError"

C5_Witness ==
    /\ rq_pc = "done"
    /\ rq_result = "AuthenticationError"
    /\ Attempts = 2
    /\ AllRuns("AuthenticationError")
    /\ Refreshes = 1

\* C6 (as claimed): the first authentication failure of a call is followed by
\* one forced refresh and, when the refresh succeeds, by another run of the
\* request command, whatever max_retries is and whatever failed before it.
C6_FirstAuthFailureRetried ==
    rq_pc = "done" =>
        \A j \in 1..Len(rq_trace) :
            (/\ IsRun(rq_trace[j]) /\ rq_trace[j].outcome = "AuthenticationError"
             /\ \A i \in 1..(j - 1) : rq_trace[i].outcome # "AuthenticationError")
            => /\ j < Len(rq_trace)
               /\ IsForcedAuth(rq_trace[j + 1])
               /\ rq_trace[j + 1].outcome = "ok" =>
                    (j + 2 <= Len(rq_trace) /\ IsRun(rq_trace[j + 2]))

\* ========================================================================
\* pagination_example.py
\* ========================================================================
None == [some |-> FALSE, val |-> <<>>]
Some(v) == [some |-> TRUE, val |-> v]

\* A URL is a sequence of tokens; "start=" stands for one occurrence of that
\* substring, "&" and "?" for the separators, the other tokens for any text
\* without them.
Hrefs == { <<"u", "?", "start=", "a", "&", "v">>,
           <<"u", "?", "v", "&", "start=", "b">>,
           <<"u", "?", "re", "start=", "c">>,
           <<"u", "?", "start=">>,
           <<"u", "?", "v">>,
           <<>> }

\* The shapes of response["next"]: key missing, null, {}, a dict without
\* "href", a dict with "href".
NextLinks == { [kind |-> k, href |-> <<>>] : k \in {"missing", "null", "empty", "nohref"} }
             \cup { [kind |-> "href", href |-> h] : h \in Hrefs }

\* The vpcs of the n-th answered request: c items, told apart by <<n, k>>.
PageItems(n, c) == [k \in 1..c |-> <<n, k>>]

Contains(s, t) == \E i \in 1..Len(s) : s[i] = t
FirstIndex(s, t) == CHOOSE i \in 1..Len(s) : s[i] = t /\ \A j \in 1..(i - 1) : s[j] # t

\* s.split(t)[0]
BeforeFirst(s, t) == IF Contains(s, t) THEN SubSeq(s, 1, FirstIndex(s, t) - 1) ELSE s
\* s.split(t)[1], for s containing t
AfterFirst(s, t) == BeforeFirst(SubSeq(s, FirstIndex(s, t) + 1, Len(s)), t)

\* get_pagination_cursor(response)
GetPaginationCursorWholeHref(next) ==
    IF next.kind # "href" \/ next.href = <<>> THEN None
    ELSE IF Contains(next.href, "start=")
         THEN Some(BeforeFirst(AfterFirst(next.href, "start="), "&"))
         ELSE Some(next.href)
GetPaginationCursor(next) ==
    IF next.kind # "href" THEN None
    ELSE IF next.href = <<>> THEN None
    ELSE IF Contains(next.href, "start=")
         THEN Some(BeforeFirst(AfterFirst(next.href, "start="), "&"))
         ELSE None

\* lines 119-123 and run_bruno_request (36-38): the command line of a page
\* request made with the arguments limit and the current cursor
ListCommandWithCursor(limit, cur) ==
    <<"bru", "run", "auth/get-iam-token.bru", "vpc/list-vpcs.bru", "--env", "prod",
      "--output", "json">> \o (IF cur.some THEN <<"start=">> \o cur.val ELSE <<>>)
ListCommand(limit, cur) ==
    <<"bru", "run", "auth/get-iam-token.bru", "vpc/list-vpcs.bru", "--env", "prod",
      "--output", "json">>

\* Python truth value of max_pages and of cursor
MaxPagesSet(mp) == mp # <<>> /\ mp[1] # 0
CursorFalsy(c) == ~c.some \/ c.val = <<>>

\* if max_pages and page_num > max_pages
PageLimitHit(mp, pn) == MaxPagesSet(mp) /\ pn > mp[1]

PageInit ==
    /\ pg_limit \in 1..MaxLimit
    /\ pg_max_pages \in {<<>>} \cup { <<k>> : k \in 0..MaxPagesBound }
    /\ pg_pc = "idle"
    /\ page_num = 1
    /\ cursor = None
    /\ all_vpcs = <<>>
    /\ pg_ret = <<>>
    /\ pg_trace = <<>>

\* lines 96-98
PaginateListVpcs ==
    /\ pg_pc = "idle"
    /\ pg_pc' = "loop"
    /\ all_vpcs' = <<>>
    /\ page_num' = 1
    /\ cursor' = None
    /\ UNCHANGED <<pg_limit, pg_max_pages, pg_ret, pg_trace>>
    /\ UNCHANGED <<retryVars, wfVars, autoVars>>

\* lines 105-107 and 155-160
PageLimitReached ==
    /\ pg_pc = "loop"
    /\ PageLimitHit(pg_max_pages, page_num)
    /\ pg_pc' = "done"
    /\ pg_ret' = all_vpcs
    /\ UNCHANGED <<pg_limit, pg_max_pages, page_num, cursor, all_vpcs, pg_trace>>
    /\ UNCHANGED <<retryVars, wfVars, autoVars>>

\* lines 119-153: one answered request
FetchPagePrepends ==
    /\ pg_pc = "loop"
    /\ ~PageLimitHit(pg_max_pages, page_num)
    /\ Len(pg_trace) < MaxFetch
    /\ \E c \in 0..MaxPageItems, nx \in NextLinks :
         LET vpcs == PageItems(Len(pg_trace) + 1, c)
             cur == GetPaginationCursor(nx)
         IN /\ pg_trace' = Append(pg_trace, [outcome |-> "ok", vpcs |-> vpcs, next |-> nx,
                                           cmd |-> ListCommand(pg_limit, cursor)])
            /\ all_vpcs' = vpcs \o all_vpcs
            /\ cursor' = cur
            /\ IF CursorFalsy(cur)
               THEN /\ pg_pc' = "done"
                    /\ pg_ret' = vpcs \o all_vpcs
                    /\ UNCHANGED page_num
               ELSE /\ page_num' = page_num + 1
                    /\ UNCHANGED <<pg_pc, pg_ret>>
    /\ UNCHANGED <<pg_limit, pg_max_pages>>
    /\ UNCHANGED <<retryVars, wfVars, autoVars>>
FetchPage ==
    /\ pg_pc = "loop"
    /\ ~PageLimitHit(pg_max_pages, page_num)
    /\ Len(pg_trace) < MaxFetch
    /\ \E c \in 0..MaxPageItems, nx \in NextLinks :
         LET vpcs == PageItems(Len(pg_trace) + 1, c)
             cur == GetPaginationCursor(nx)
         IN /\ pg_trace' = Append(pg_trace, [outcome |-> "ok", vpcs |-> vpcs, next |-> nx,
                                           cmd |-> ListCommand(pg_limit, cursor)])
            /\ all_vpcs' = all_vpcs \o vpcs
            /\ cursor' = cur
            /\ IF CursorFalsy(cur)
               THEN /\ pg_pc' = "done"
                    /\ pg_ret' = all_vpcs \o vpcs
                    /\ UNCHANGED page_num
               ELSE /\ page_num' = page_num + 1
                    /\ UNCHANGED <<pg_pc, pg_ret>>
    /\ UNCHANGED <<pg_limit, pg_max_pages>>
    /\ UNCHANGED <<retryVars, wfVars, autoVars>>

\* lines 124-129: the request fails or its output is not JSON
FetchFailsDropsItems ==
    /\ pg_pc = "loop"
    /\ ~PageLimitHit(pg_max_pages, page_num)
    /\ Len(pg_trace) < MaxFetch
    /\ \E e \in {"CalledProcessError", "JSONDecodeError"} :
         pg_trace' = Append(pg_trace, [outcome |-> e, vpcs |-> <<>>,
                                       next |-> [kind |-> "missing", href |-> <<>>],
                                       cmd |-> ListCommand(pg_limit, cursor)])
    /\ pg_pc' = "done"
    /\ pg_ret' = <<>>
    /\ UNCHANGED <<pg_limit, pg_max_pages, page_num, cursor, all_vpcs>>
    /\ UNCHANGED <<retryVars, wfVars, autoVars>>
FetchFails ==
    /\ pg_pc = "loop"
    /\ ~PageLimitHit(pg_max_pages, page_num)
    /\ Len(pg_trace) < MaxFetch
    /\ \E e \in {"CalledProcessError", "JSONDecodeError"} :
         pg_trace' = Append(pg_trace, [outcome |-> e, vpcs |-> <<>>,
                                       next |-> [kind |-> "missing", href |-> <<>>],
                                       cmd |-> ListCommand(pg_limit, cursor)])
    /\ pg_pc' = "done"
    /\ pg_ret' = all_vpcs
    /\ UNCHANGED <<pg_limit, pg_max_pages, page_num, cursor, all_vpcs>>
    /\ UNCHANGED <<retryVars, wfVars, autoVars>>

PageNext ==
    \/ PaginateListVpcs
    \/ PageLimitReached
    \/ FetchPage
    \/ FetchFails

RetryIdle ==
    /\ max_retries = 0
    /\ initial_retry_delay = 1
    /\ max_retry_delay = 1
    /\ backoff_factor = 1
    /\ token_expires_at = NoTime
    /\ last_auth_time = NoTime
    /\ now = 0
    /\ rq_pc = "idle"
    /\ retry_count = 0
    /\ delay = 0
    /\ rq_result = "none"
    /\ rq_trace = <<>>
    /\ rq_calls = 0

InitPaginate == PageInit /\ RetryIdle /\ WorkflowIdle /\ InventoryIdle /\ TopologyIdle /\ BatchIdle

SpecPaginate == InitPaginate /\ [][PageNext]_vars

\* ------------------------------------------------------------------------
\* Claims on the paginator
\* ------------------------------------------------------------------------

\* The response has no next link, no href in it, or an href without "start=".
NoCursorCarried(r) ==
    r.outcome = "ok" /\ (r.next.kind # "href" \/ ~Contains(r.next.href, "start="))

\* C7: a response that carries no continuation cursor is the last one
\* requested, whatever its item count: pagination is then over and has
\* returned what it accumulated; an empty first page without cursor gives one
\* invocation and an empty result.
C7_StopsWithoutCursor ==
    \A i \in 1..Len(pg_trace) :
        NoCursorCarried(pg_trace[i]) =>
            /\ i = Len(pg_trace)
            /\ pg_pc = "done"
            /\ pg_ret = all_vpcs
            /\ (i = 1 /\ pg_trace[i].vpcs = <<>>) => pg_ret = <<>>

\* a full page (item count = limit) without cursor ended the pagination
C7_Witness ==
    /\ pg_pc = "done"
    /\ Len(pg_trace) = 2
    /\ NoCursorCarried(pg_trace[2])
    /\ pg_trace[2].next.kind = "href"
    /\ Len(pg_trace[2].vpcs) = pg_limit
    /\ Len(pg_ret) = 2 * pg_limit

\* C8 (as claimed): with max_pages = k the list request is invoked at most k
\* times, for every k.
C8_AtMostMaxPages ==
    pg_max_pages # <<>> => Len(pg_trace) <= pg_max_pages[1]

\* ========================================================================
\* workflow_chaining.py
\* ========================================================================

\* ---- JSON documents printed by the external command ----
JStr(v) == [t |-> "str", s |-> v, kv |-> <<>>]
JNull == [t |-> "null", s |-> NoneS, kv |-> <<>>]
JDict(kv) == [t |-> "dict", s |-> NoneS, kv |-> kv]   \* kv: sequence of <<key, value>>

HasKey(d, k) == \E n \in 1..Len(d.kv) : d.kv[n][1] = k
GetKey(d, k) == d.kv[CHOOSE n \in 1..Len(d.kv) : d.kv[n][1] = k][2]

\* str(current)
StrOf(j) == IF j.t = "str" THEN j.s ELSE Str("<repr>")

\* key_path.split("."): a path is a sequence of tokens, "." being the separator.
IsKeyToken(t) == t # "."
SplitPath(path) == SelectSeq(path, IsKeyToken)

\* _extract_value, the loop over the keys and the final conversion
RECURSIVE Lookup(_, _)
Lookup(data, keys) ==
    IF keys = <<>> THEN (IF data.t = "null" THEN NoneS ELSE StrOf(data))
    ELSE IF data.t = "dict" /\ HasKey(data, Head(keys))
         THEN Lookup(GetKey(data, Head(keys)), Tail(keys))
         ELSE NoneS

ExtractValue(data, key_path) == Lookup(data, SplitPath(key_path))

\* ---- steps ----
WorkflowStep(name, bru_file, env_vars, run) ==
    [name |-> name, bru_file |-> bru_file, env_vars |-> env_vars,
     extract_id_key |-> <<"id">>, result |-> <<>>, extracted_id |-> NoneS,
     status |-> "pending", error |-> NoneS, run |-> run]

VpcEnv(cfg) ==
    IF Truthy(cfg.resource_group_id)
    THEN [NEW_VPC_NAME |-> Str("demo-vpc"), RESOURCE_GROUP_ID |-> cfg.resource_group_id]
    ELSE [NEW_VPC_NAME |-> Str("demo-vpc")]

\* _build_steps, steps 1-7 (lines 214-300)
BuildPrefix(cfg, run) ==
    << WorkflowStep("create_vpc", "vpc/create-vpc.bru", VpcEnv(cfg), run),
       WorkflowStep("create_subnet", "vpc/subnets/create-subnet.bru",
                    [NEW_SUBNET_NAME |-> Str("demo-subnet"), VPC_ID |-> Str("${vpc_id}"),
                     ZONE_NAME |-> Str("us-south-1"), SUBNET_IP_COUNT |-> Str("256")], run),
       WorkflowStep("create_security_group", "vpc/security-groups/create-security-group.bru",
                    [NEW_SG_NAME |-> Str("demo-sg"), VPC_ID |-> Str("${vpc_id}")], run),
       WorkflowStep("add_ssh_rule", "vpc/security-groups/add-rule-ssh.bru",
                    [SECURITY_GROUP_ID |-> Str("${sg_id}"), SSH_SOURCE_CIDR |-> Str("0.0.0.0/0")], run),
       WorkflowStep("add_http_rule", "vpc/security-groups/add-rule-http.bru",
                    [SECURITY_GROUP_ID |-> Str("${sg_id}")], run),
       WorkflowStep("add_https_rule", "vpc/security-groups/add-rule-https.bru",
                    [SECURITY_GROUP_ID |-> Str("${sg_id}")], run),
       WorkflowStep("add_outbound_rule", "vpc/security-groups/add-rule-outbound-all.bru",
                    [SECURITY_GROUP_ID |-> Str("${sg_id}")], run) >>

\* lines 303-306: the checks that raise ValueError
BuildRaisesImageOnly(cfg) == ~Truthy(cfg.image_id)
BuildRaises(cfg) == ~Truthy(cfg.image_id) \/ ~Truthy(cfg.ssh_key_id)

\* _build_steps, steps 8-9 (lines 308-336)
BuildSuffix(cfg, run) ==
    << WorkflowStep("create_instance", "vpc/instances/create-instance.bru",
                    [NEW_INSTANCE_NAME |-> Str("demo-instance"), VPC_ID |-> Str("${vpc_id}"),
                     ZONE_NAME |-> Str("us-south-1"), PROFILE_NAME |-> Str("cx2-2x4"),
                     IMAGE_ID |-> cfg.image_id, SUBNET_ID |-> Str("${subnet_id}"),
                     SECURITY_GROUP_ID |-> Str("${sg_id}"), SSH_KEY_ID |-> cfg.ssh_key_id], run) >>
    \o (IF cfg.create_floating_ip
        THEN << WorkflowStep("create_floating_ip", "vpc/floating-ips/create-floating-ip.bru",
                             [NEW_FIP_NAME |-> Str("demo-instance-fip"),
                              ZONE_NAME |-> Str("us-south-1")], run) >>
        ELSE <<>>)

\* self.steps as _build_steps leaves it, whether it returns or raises
BuildSteps(cfg, run) ==
    IF BuildRaises(cfg) THEN BuildPrefix(cfg, run)
    ELSE BuildPrefix(cfg, run) \o BuildSuffix(cfg, run)

\* _resolve_placeholders, one value
ResolveValueCopyPaste(value) ==
    IF value = Str("${vpc_id}") /\ Truthy(vpc_id) THEN vpc_id
    ELSE IF value = Str("${subnet_id}") /\ Truthy(subnet_id) THEN subnet_id
    ELSE IF value = Str("${sg_id}") /\ Truthy(subnet_id) THEN subnet_id
    ELSE IF value = Str("${instance_id}") /\ Truthy(instance_id) THEN instance_id
    ELSE value
ResolveValue(value) ==
    IF value = Str("${vpc_id}") /\ Truthy(vpc_id) THEN vpc_id
    ELSE IF value = Str("${subnet_id}") /\ Truthy(subnet_id) THEN subnet_id
    ELSE IF value = Str("${sg_id}") /\ Truthy(sg_id) THEN sg_id
    ELSE IF value = Str("${instance_id}") /\ Truthy(instance_id) THEN instance_id
    ELSE value

ResolvePlaceholders(env_vars) == [k \in DOMAIN env_vars |-> ResolveValue(env_vars[k])]

\* ---- the environment: what one run of a step's command prints ----
RunTag == <<"1", "2", "3", "4">>
FreshId(name, run) == <<"r006", name, RunTag[run]>>
ResponseShapes == {"full", "noid"}
Response(shape, name, run) ==
    IF shape = "full"
    THEN JDict(<< <<"id", JStr(FreshId(name, run))>>, <<"name", JStr(Str(name))>>,
                  <<"address", JStr(<<"169.0.0.1", RunTag[run]>>)>> >>)
    ELSE IF shape = "nullid"
    THEN JDict(<< <<"id", JNull>>, <<"name", JStr(Str(name))>> >>)
    ELSE JDict(<< <<"name", JStr(Str(name))>> >>)
StepErrors == {"CalledProcessError", "JSONDecodeError"}

WfRunEvent(bru_file, env) == [ev |-> "run", bru_file |-> bru_file, env |-> env]
WfSleepEvent == [ev |-> "sleep", bru_file |-> "", env |-> <<>>]
WfSummaryEvent == [ev |-> "summary", bru_file |-> "", env |-> <<>>]

WorkflowInit ==
    /\ wf_cfg \in [image_id : {NoneS, Str(""), Str("r006-img")},
                   ssh_key_id : {NoneS, Str("r006-key")},
                   resource_group_id : {NoneS, Str("rg-1")},
                   create_floating_ip : BOOLEAN]
    /\ steps = <<>>
    /\ current_step_index = 0
    /\ workflow_status = "not_started"
    /\ vpc_id = NoneS
    /\ subnet_id = NoneS
    /\ sg_id = NoneS
    /\ instance_id = NoneS
    /\ floating_ip_id = NoneS
    /\ floating_ip_address = NoneS
    /\ wf_pc = "idle"
    /\ wf_i = 0
    /\ wf_ret = "none"
    /\ wf_trace = <<>>
    /\ wf_runs = 0

\* execute(), lines 444-445
Execute ==
    /\ wf_pc \in {"idle", "returned"}
    /\ wf_runs < MaxRuns
    /\ wf_runs' = wf_runs + 1
    /\ workflow_status' = "running"
    /\ wf_pc' = "build"
    /\ wf_ret' = "none"
    /\ wf_trace' = <<>>
    /\ UNCHANGED <<wf_cfg, steps, current_step_index, idVars, wf_i>>
    /\ UNCHANGED <<retryVars, pageVars, autoVars>>

\* execute(), lines 447-456: _build_steps and the ValueError handler
BuildPrintsSummary ==
    /\ wf_pc = "build"
    /\ steps' = BuildSteps(wf_cfg, wf_runs)
    /\ IF BuildRaises(wf_cfg)
       THEN /\ workflow_status' = "failed"
            /\ wf_ret' = "False"
            /\ wf_pc' = "returned"
            /\ wf_trace' = <<WfSummaryEvent>>
            /\ UNCHANGED wf_i
       ELSE /\ wf_pc' = "loop"
            /\ wf_i' = 1
            /\ UNCHANGED <<workflow_status, wf_ret, wf_trace>>
    /\ UNCHANGED <<wf_cfg, current_step_index, idVars, wf_runs>>
    /\ UNCHANGED <<retryVars, pageVars, autoVars>>
Build ==
    /\ wf_pc = "build"
    /\ steps' = BuildSteps(wf_cfg, wf_runs)
    /\ IF BuildRaises(wf_cfg)
       THEN /\ workflow_status' = "failed"
            /\ wf_ret' = "False"
            /\ wf_pc' = "returned"
            /\ UNCHANGED wf_i
       ELSE /\ wf_pc' = "loop"
            /\ wf_i' = 1
            /\ UNCHANGED <<workflow_status, wf_ret>>
    /\ UNCHANGED <<wf_cfg, current_step_index, idVars, wf_trace, wf_runs>>
    /\ UNCHANGED <<retryVars, pageVars, autoVars>>

\* execute_step, lines 372-373
StartStepUnmarked(step) == step
StartStep(step) == [step EXCEPT !.status = "running"]

\* execute(), lines 459-461 and execute_step up to the external call
StepBegin ==
    /\ wf_pc = "loop"
    /\ current_step_index' = wf_i
    /\ steps' = [steps EXCEPT ![wf_i] = StartStep(@)]
    /\ wf_pc' = "running"
    /\ UNCHANGED <<wf_cfg, workflow_status, idVars, wf_i, wf_ret, wf_trace, wf_runs>>
    /\ UNCHANGED <<retryVars, pageVars, autoVars>>

\* lines 396-414: where the extracted identifier of a step is recorded
StoreIdRuleOverwrites(name, id, response) ==
    /\ vpc_id' = IF name = "create_vpc" THEN id ELSE vpc_id
    /\ subnet_id' = IF name = "create_subnet" THEN id ELSE subnet_id
    /\ sg_id' = IF name \in {"create_security_group", "add_ssh_rule", "add_http_rule",
                             "add_https_rule", "add_outbound_rule"} THEN id ELSE sg_id
    /\ instance_id' = IF name = "create_instance" THEN id ELSE instance_id
    /\ floating_ip_id' = IF name = "create_floating_ip" THEN id ELSE floating_ip_id
    /\ floating_ip_address' = IF name = "create_floating_ip"
                              THEN ExtractValue(response, <<"address">>)
                              ELSE floating_ip_address
StoreId(name, id, response) ==
    /\ vpc_id' = IF name = "create_vpc" THEN id ELSE vpc_id
    /\ subnet_id' = IF name = "create_subnet" THEN id ELSE subnet_id
    /\ sg_id' = IF name = "create_security_group" THEN id ELSE sg_id
    /\ instance_id' = IF name = "create_instance" THEN id ELSE instance_id
    /\ floating_ip_id' = IF name = "create_floating_ip" THEN id ELSE floating_ip_id
    /\ floating_ip_address' = IF name = "create_floating_ip"
                              THEN ExtractValue(response, <<"address">>)
                              ELSE floating_ip_address

\* execute(), lines 465-469: if not success
StopsOnFailureNever(success) == FALSE
StopsOnFailure(success) == ~success

\* execute(), lines 465-478, after execute_step returned success
AfterStepRetryOnce(success, events) ==
    IF ~success /\ \A n \in 1..Len(wf_trace) : wf_trace[n].bru_file # steps[wf_i].bru_file
    THEN /\ wf_trace' = wf_trace \o events
         /\ wf_pc' = "loop"
         /\ UNCHANGED <<workflow_status, wf_ret, wf_i>>
    ELSE IF ~success
    THEN /\ workflow_status' = "failed"
         /\ wf_trace' = wf_trace \o events \o <<[ev |-> "summary", bru_file |-> "", env |-> <<>>]>>
         /\ wf_ret' = "False"
         /\ wf_pc' = "returned"
         /\ UNCHANGED wf_i
    ELSE IF wf_i < Len(steps)
    THEN /\ wf_trace' = wf_trace \o events \o <<[ev |-> "sleep", bru_file |-> "", env |-> <<>>]>>
         /\ wf_i' = wf_i + 1
         /\ wf_pc' = "loop"
         /\ UNCHANGED <<workflow_status, wf_ret>>
    ELSE /\ workflow_status' = "completed"
         /\ wf_trace' = wf_trace \o events \o <<[ev |-> "summary", bru_file |-> "", env |-> <<>>]>>
         /\ wf_ret' = "True"
         /\ wf_pc' = "returned"
         /\ UNCHANGED wf_i
AfterStepNoDelay(success, events) ==
    IF ~success
    THEN /\ workflow_status' = "failed"
         /\ wf_trace' = wf_trace \o events \o <<[ev |-> "summary", bru_file |-> "", env |-> <<>>]>>
         /\ wf_ret' = "False"
         /\ wf_pc' = "returned"
         /\ UNCHANGED wf_i
    ELSE IF wf_i < Len(steps)
    THEN /\ wf_trace' = wf_trace \o events
         /\ wf_i' = wf_i + 1
         /\ wf_pc' = "loop"
         /\ UNCHANGED <<workflow_status, wf_ret>>
    ELSE /\ workflow_status' = "completed"
         /\ wf_trace' = wf_trace \o events \o <<[ev |-> "summary", bru_file |-> "", env |-> <<>>]>>
         /\ wf_ret' = "True"
         /\ wf_pc' = "returned"
         /\ UNCHANGED wf_i
AfterStep(success, events) ==
    IF StopsOnFailure(success)
    THEN /\ workflow_status' = "failed"
         /\ wf_trace' = wf_trace \o events \o <<WfSummaryEvent>>
         /\ wf_ret' = "False"
         /\ wf_pc' = "returned"
         /\ UNCHANGED wf_i
    ELSE IF wf_i < Len(steps)
    THEN /\ wf_trace' = wf_trace \o events \o <<WfSleepEvent>>
         /\ wf_i' = wf_i + 1
         /\ wf_pc' = "loop"
         /\ UNCHANGED <<workflow_status, wf_ret>>
    ELSE /\ workflow_status' = "completed"
         /\ wf_trace' = wf_trace \o events \o <<WfSummaryEvent>>
         /\ wf_ret' = "True"
         /\ wf_pc' = "returned"
         /\ UNCHANGED wf_i

\* execute_step, lines 377-417: the command succeeds
StepSucceeds ==
    /\ wf_pc = "running"
    /\ \E shape \in ResponseShapes :
         LET step == steps[wf_i]
             env == ResolvePlaceholders(step.env_vars)
             response == Response(shape, step.name, wf_runs)
             extracted == ExtractValue(response, step.extract_id_key)
         IN /\ IF Truthy(extracted)
               THEN /\ steps' = [steps EXCEPT ![wf_i] = [@ EXCEPT !.result = <<response>>,
                                                                  !.status = "completed",
                                                                  !.extracted_id = extracted]]
                    /\ StoreId(step.name, extracted, response)
               ELSE /\ steps' = [steps EXCEPT ![wf_i] = [@ EXCEPT !.result = <<response>>,
                                                                  !.status = "completed"]]
                    /\ UNCHANGED idVars
            /\ AfterStep(TRUE, <<WfRunEvent(step.bru_file, env)>>)
    /\ UNCHANGED <<wf_cfg, current_step_index, wf_runs>>
    /\ UNCHANGED <<retryVars, pageVars, autoVars>>

\* execute_step, lines 419-431: the command fails or prints no JSON
StepFailsRollback ==
    /\ wf_pc = "running"
    /\ \E e \in StepErrors :
         LET step == steps[wf_i]
             env == ResolvePlaceholders(step.env_vars)
         IN /\ steps' = [j \in 1..Len(steps) |->
                           IF j = wf_i
                           THEN [steps[j] EXCEPT !.status = "failed", !.error = Str(e)]
                           ELSE [steps[j] EXCEPT !.extracted_id = NoneS, !.result = <<>>]]
            /\ AfterStep(FALSE, <<WfRunEvent(step.bru_file, env)>>)
    /\ vpc_id' = NoneS
    /\ subnet_id' = NoneS
    /\ sg_id' = NoneS
    /\ instance_id' = NoneS
    /\ UNCHANGED <<wf_cfg, current_step_index, floating_ip_id, floating_ip_address, wf_runs>>
    /\ UNCHANGED <<retryVars, pageVars, autoVars>>
StepFails ==
    /\ wf_pc = "running"
    /\ \E e \in StepErrors :
         LET step == steps[wf_i]
             env == ResolvePlaceholders(step.env_vars)
         IN /\ steps' = [steps EXCEPT ![wf_i] = [@ EXCEPT !.status = "failed", !.error = Str(e)]]
            /\ AfterStep(FALSE, <<WfRunEvent(step.bru_file, env)>>)
    /\ UNCHANGED <<wf_cfg, current_step_index, idVars, wf_runs>>
    /\ UNCHANGED <<retryVars, pageVars, autoVars>>

WorkflowNext ==
    \/ Execute
    \/ Build
    \/ StepBegin
    \/ StepSucceeds
    \/ StepFails

InitWorkflow == WorkflowInit /\ RetryIdle /\ PageIdle /\ InventoryIdle /\ TopologyIdle /\ BatchIdle

SpecWorkflow == InitWorkflow /\ [][WorkflowNext]_vars

WfIsRun(e) == e.ev = "run"
WfRuns == SelectSeq(wf_trace, WfIsRun)

\* ------------------------------------------------------------------------
\* Claims on the workflow runner
\* ------------------------------------------------------------------------
\* step k of the step list built by the current execute() has failed
StepFailed(k) == k \in 1..Len(steps) /\ steps[k].run = wf_runs /\ steps[k].status = "failed"

\* C2: once step k has failed, no later step is invoked: the commands run in
\* this execute() are exactly those of steps 1..k, steps 1..k-1 are completed,
\* steps k+1..n are still pending, and execute() has returned False with
\* workflow_status failed.
C2_FailureIsTerminal ==
    \A k \in 1..Len(steps) :
        StepFailed(k) =>
            /\ \A j \in 1..(k - 1) : steps[j].status = "completed"
            /\ \A j \in (k + 1)..Len(steps) : steps[j].status = "pending"
            /\ Len(WfRuns) = k
            /\ \A j \in 1..k : WfRuns[j].bru_file = steps[j].bru_file
            /\ wf_pc = "returned"
            /\ wf_ret = "False"
            /\ workflow_status = "failed"

\* step 3 of 9 failed
C2_Witness ==
    /\ Len(steps) = 9
    /\ StepFailed(3)
    /\ wf_pc = "returned"
    /\ steps[2].status = "completed"
    /\ steps[9].status = "pending"

RequiredIdAbsent == ~Truthy(wf_cfg.image_id) \/ ~Truthy(wf_cfg.ssh_key_id)

\* C9: with image_id or ssh_key_id absent, execute() never runs a command and
\* never moves a step out of pending, and it returns False with
\* workflow_status failed.
C9_PreconditionFailure ==
    RequiredIdAbsent =>
        /\ WfRuns = <<>>
        /\ \A j \in 1..Len(steps) : steps[j].status = "pending"
        /\ wf_pc \notin {"loop", "running"}
        /\ wf_pc = "returned" => (wf_ret = "False" /\ workflow_status = "failed")

C9_Witness ==
    /\ wf_cfg.image_id # NoneS
    /\ wf_cfg.ssh_key_id = NoneS
    /\ wf_pc = "returned"
    /\ wf_ret = "False"
    /\ Len(steps) = 7

StepMoves == {<<"pending", "running">>, <<"running", "completed">>, <<"running", "failed">>}

\* C10: a step object changes status only pending -> running,
\* running -> completed or running -> failed (so completed and failed are
\* never left and pending never goes straight to a terminal status).
C10_StepStatusMachine ==
    [][\A j \in 1..Len(steps) :
          (j <= Len(steps') /\ steps'[j].run = steps[j].run) =>
              \/ steps'[j].status = steps[j].status
              \/ <<steps[j].status, steps'[j].status>> \in StepMoves]_vars

C10_Witness ==
    /\ Len(steps) >= 2
    /\ steps[1].status = "completed"
    /\ steps[2].status = "failed"

WorkflowMoves == {<<"not_started", "running">>, <<"running", "completed">>, <<"running", "failed">>}

Placeholders == {Str("${vpc_id}"), Str("${subnet_id}"), Str("${sg_id}"), Str("${instance_id}")}

\* the j-th command of the current execute() got, for key k, a value put in
\* place of a placeholder
Substituted(j, k) ==
    /\ steps[j].env_vars[k] \in Placeholders
    /\ WfRuns[j].env[k] # steps[j].env_vars[k]

\* C12 (as claimed): a value substituted for a placeholder of step j is the
\* identifier extracted by a completed step of smaller index of the same run.
C12_SubstitutedFromEarlierStep ==
    \A j \in 1..Len(WfRuns) : \A k \in DOMAIN WfRuns[j].env :
        Substituted(j, k) =>
            \E i \in 1..(j - 1) :
                /\ steps[i].run = wf_runs
                /\ steps[i].status = "completed"
                /\ steps[i].extracted_id = WfRuns[j].env[k]

\* the step whose identifier a placeholder stands for
Supplier(token) ==
    IF token = Str("${vpc_id}") THEN "create_vpc"
    ELSE IF token = Str("${subnet_id}") THEN "create_subnet"
    ELSE IF token = Str("${sg_id}") THEN "create_security_group"
    ELSE "create_instance"

\* C13: the command of step j receives, for an input that is a placeholder
\* token, the identifier captured by the corresponding earlier step of the run
\* (when that step captured one), and every input that is not a placeholder
\* token unchanged.
C13_PlaceholderResolution ==
    \A j \in 1..Len(WfRuns) : \A k \in DOMAIN steps[j].env_vars :
        LET value == steps[j].env_vars[k]
            given == WfRuns[j].env[k]
        IN /\ DOMAIN WfRuns[j].env = DOMAIN steps[j].env_vars
           /\ value \notin Placeholders => given = value
           /\ value \in Placeholders =>
                \A i \in 1..(j - 1) :
                    (steps[i].name = Supplier(value) /\ steps[i].extracted_id # NoneS)
                        => given = steps[i].extracted_id

\* create_instance was run with the three identifiers captured in this run
C13_Witness ==
    /\ Len(WfRuns) >= 8
    /\ WfRuns[8].env.VPC_ID = FreshId("create_vpc", wf_runs)
    /\ WfRuns[8].env.SUBNET_ID = FreshId("create_subnet", wf_runs)
    /\ WfRuns[8].env.SECURITY_GROUP_ID = FreshId("create_security_group", wf_runs)
    /\ WfRuns[8].env.IMAGE_ID = wf_cfg.image_id

\* step i of the current run completed without capturing an identifier
CapturedNone(i) ==
    /\ steps[i].run = wf_runs
    /\ steps[i].status = "completed"
    /\ steps[i].extracted_id = NoneS

\* C14 (as claimed): when the step that supplies a placeholder's identifier
\* captured none, the dependent step is still run, it receives the literal
\* placeholder token, and the run does not fail for that reason (a failed run
\* has a failed step or a missing required identifier).
C14_UnresolvedPassedThrough ==
    /\ \A j \in 1..Len(WfRuns) : \A k \in DOMAIN steps[j].env_vars :
         (/\ steps[j].env_vars[k] \in Placeholders
          /\ \E i \in 1..(j - 1) :
               steps[i].name = Supplier(steps[j].env_vars[k]) /\ CapturedNone(i))
         => WfRuns[j].env[k] = steps[j].env_vars[k]
    /\ (wf_pc = "returned" /\ workflow_status = "failed") =>
         (RequiredIdAbsent \/ \E i \in 1..Len(steps) : StepFailed(i))

\* C15: within one execute() no command is run twice (one run per step at
\* most), and a step that failed, by a process failure or by a response that
\* does not parse, has ended the run as failed with its command the last one.
C15_NoStepRetry ==
    /\ Len(WfRuns) <= Len(steps)
    /\ \A a, b \in 1..Len(WfRuns) : a # b => WfRuns[a].bru_file # WfRuns[b].bru_file
    /\ \A i \in 1..Len(steps) :
         StepFailed(i) =>
             /\ steps[i].error \in {Str("CalledProcessError"), Str("JSONDecodeError")}
             /\ WfRuns[Len(WfRuns)].bru_file = steps[i].bru_file
             /\ workflow_status = "failed"
             /\ wf_pc = "returned"

\* a response that did not parse ended the run at step 2
C15_Witness ==
    /\ StepFailed(2)
    /\ steps[2].error = Str("JSONDecodeError")
    /\ Len(WfRuns) = 2
    /\ workflow_status = "failed"

\* C16: the transition in which a step fails changes no other step (status,
\* captured response and extracted identifier stay), changes none of the
\* workflow's resource identifiers, and runs nothing but the failing step's
\* own command: every command of the run is the creation command of a step.
C16_FailureUndoesNothing ==
    [][(wf_pc = "running" /\ steps'[wf_i].status = "failed") =>
          /\ \A j \in 1..Len(steps) : j # wf_i => steps'[j] = steps[j]
          /\ Len(steps') = Len(steps)
          /\ idVars' = idVars
          /\ wf_trace' = wf_trace \o << WfRunEvent(steps[wf_i].bru_file, WfRuns'[Len(WfRuns')].env),
                                        WfSummaryEvent >>
          /\ \A n \in 1..Len(wf_trace') :
               WfIsRun(wf_trace'[n]) => \E j \in 1..Len(steps) : wf_trace'[n].bru_file = steps[j].bru_file
      ]_vars

\* step 3 failed after two steps that captured identifiers
C16_Witness ==
    /\ StepFailed(3)
    /\ steps[1].status = "completed"
    /\ steps[1].extracted_id = vpc_id
    /\ vpc_id = FreshId("create_vpc", wf_runs)
    /\ subnet_id = FreshId("create_subnet", wf_runs)
    /\ steps[2].result # <<>>

\* ------------------------------------------------------------------------
\* More claims on the retry wrapper
\* ------------------------------------------------------------------------
Backoff == {"CalledProcessError", "RateLimitError"}

\* the runs of the current call that failed with kind o, as positions of rq_trace
RunsOf(o) == {n \in 1..Len(rq_trace) : IsRun(rq_trace[n]) /\ rq_trace[n].outcome = o}
NoAuthFailure == RunsOf("AuthenticationError") = {}

\* the delay after n backoffs starting from initial_retry_delay
RECURSIVE DelayAfter(_)
DelayAfter(n) ==
    IF n = 0 THEN initial_retry_delay
    ELSE Min(DelayAfter(n - 1) * backoff_factor, max_retry_delay)

\* C17 (as claimed): rate-limit and transport failures are tracked
\* independently: a kind's failures are retried until max_retries + 1 of that
\* kind were seen, and the delay slept after a failure depends only on the
\* earlier failures of the same kind.
C17_IndependentTracking ==
    NoAuthFailure =>
        \A o \in Backoff :
            /\ (rq_pc = "done" /\ Len(rq_trace) \in RunsOf(o)) =>
                   Cardinality(RunsOf(o)) = max_retries + 1
            /\ \A n \in RunsOf(o) :
                   n < Len(rq_trace) =>
                       rq_trace[n + 1].d = DelayAfter(Cardinality({m \in RunsOf(o) : m < n}))

\* C17 (amended): transport and rate-limit failures share one retry counter and
\* one backoff delay: in any mix at most max_retries of them are retried in a
\* call, each retried one is followed by a sleep, the k-th sleep of the call is
\* initial_retry_delay for k = 1 and min(previous * backoff_factor,
\* max_retry_delay) afterwards whatever kinds failed before, and the failure
\* that is raised finds the shared counter at max_retries.
C17_SharedTracking ==
    /\ Len(Sleeps) <= max_retries
    /\ Len(Sleeps) + Cardinality({n \in 1..Len(rq_trace) :
                                    IsForcedAuth(rq_trace[n]) /\ rq_trace[n].outcome = "ok"})
         = retry_count
    /\ \A n \in RunsOf("CalledProcessError") \cup RunsOf("RateLimitError") :
         n < Len(rq_trace) => IsSleep(rq_trace[n + 1])
    /\ \A k \in 1..Len(Sleeps) :
         Sleeps[k].d = IF k = 1 THEN initial_retry_delay
                       ELSE Min(Sleeps[k - 1].d * backoff_factor, max_retry_delay)
    /\ \A o \in Backoff :
         (rq_pc = "done" /\ Len(rq_trace) \in RunsOf(o)) => retry_count = max_retries

\* a transport failure used up part of the budget and advanced the delay of
\* the rate-limit failures that followed
C17_Witness ==
    /\ rq_pc = "done"
    /\ max_retries = 2
    /\ Attempts = 3
    /\ Runs[1].outcome = "CalledProcessError"
    /\ Runs[2].outcome = "RateLimitError"
    /\ Runs[3].outcome = "RateLimitError"
    /\ rq_result = "RateLimitError"
    /\ Sleeps[2].d > Sleeps[1].d

ClientErrors == {"ResourceNotFoundError", "ValidationError"}

\* C19: an attempt that fails with ResourceNotFoundError or ValidationError is
\* the last event of the call (no further run, no sleep, no refresh) and the
\* caller receives exactly that kind of error.
C19_ClientErrorsNotRetried ==
    \A n \in 1..Len(rq_trace) :
        (IsRun(rq_trace[n]) /\ rq_trace[n].outcome \in ClientErrors) =>
            /\ n = Len(rq_trace)
            /\ rq_pc = "done"
            /\ rq_result = rq_trace[n].outcome
            /\ rq_result \notin {"AuthenticationError", "RateLimitError", "BrunoAPIError"}

\* not-found on the first attempt of a client with retries to spare
C19_Witness ==
    /\ rq_pc = "done"
    /\ max_retries = 2
    /\ Attempts = 1
    /\ Runs[1].outcome = "ResourceNotFoundError"
    /\ rq_result = "ResourceNotFoundError"
    /\ Sleeps = <<>>

C21_ServerErrorRetried ==
    \A n \in RunsOf("BrunoAPIError") :
        Cardinality({m \in 1..(n - 1) : IsSleep(rq_trace[m]) \/ IsForcedAuth(rq_trace[m])})
            < max_retries
        => (n < Len(rq_trace) /\ IsSleep(rq_trace[n + 1]))

\* ------------------------------------------------------------------------
\* The client under a running clock (token lifetime)
\* ------------------------------------------------------------------------
\* Time that passes between two readings of datetime.now(): amounts around the
\* refresh window of a token.
TickSteps == {TokenLifetime - RefreshWindow - 1, TokenLifetime - RefreshWindow, TokenLifetime}

Tick ==
    /\ \E s \in TickSteps :
         /\ now + s <= MaxClock
         /\ now' = now + s
    /\ UNCHANGED <<configVars, token_expires_at, last_auth_time, rq_pc, retry_count, delay,
                   rq_result, rq_trace, rq_calls>>
    /\ UNCHANGED <<pageVars, wfVars, autoVars>>

\* a client with no or one retry: BrunoClient(max_retries, initial_retry_delay=1,
\* max_retry_delay=2, backoff_factor=2)
AuthInit ==
    /\ max_retries \in {0, 1}
    /\ initial_retry_delay = 1
    /\ max_retry_delay = 2
    /\ backoff_factor = 2
    /\ token_expires_at = NoTime
    /\ last_auth_time = NoTime
    /\ now = 0
    /\ rq_pc = "idle"
    /\ retry_count = 0
    /\ delay = 0
    /\ rq_result = "none"
    /\ rq_trace = <<>>
    /\ rq_calls = 0

AuthNext ==
    \/ Tick
    \/ RequestWithRetry
    \/ AttemptOk
    \/ AttemptProcessError
    \/ AttemptRateLimit
    \/ AttemptJSONError
    \/ AttemptAuthError
    \/ AttemptUncaught
    \/ LoopExit

InitAuth == AuthInit /\ PageIdle /\ WorkflowIdle /\ InventoryIdle /\ TopologyIdle /\ BatchIdle

SpecAuth == InitAuth /\ [][AuthNext]_vars

\* the step is the authenticate() at the start of a request_with_retry call
CallStarts == rq_calls' = rq_calls + 1
\* ... and it ran the IAM command
CallAuthenticates == CallStarts /\ rq_trace' # <<>>

\* C22: the authenticate() at the start of a call runs the IAM command exactly
\* when no expiry is recorded or the clock is at or past expiry - 300 s; when
\* the command succeeds the recorded expiry is the time of authentication
\* + 3600 s; and a call made less than 3300 s after the last successful
\* authentication runs no IAM command.
C22_AuthenticateWhenDue ==
    [][CallStarts =>
         /\ CallAuthenticates <=> (token_expires_at = NoTime \/ now >= token_expires_at - 300)
         /\ (CallAuthenticates /\ rq_trace'[1].outcome = "ok") =>
                (last_auth_time' = now /\ token_expires_at' = now + 3600)
         /\ (last_auth_time # NoTime /\ now - last_auth_time < 3300) => ~CallAuthenticates
      ]_vars

\* a second call 3299 s after the authentication of the first one went on
\* without authenticating
C22_Witness ==
    /\ rq_calls = 2
    /\ rq_pc = "loop"
    /\ rq_trace = <<>>
    /\ last_auth_time # NoTime
    /\ now = last_auth_time + 3299
    /\ token_expires_at = last_auth_time + 3600

\* ------------------------------------------------------------------------
\* More claims on the paginator
\* ------------------------------------------------------------------------
\* the item lists of the answered requests among the first n, one after another
RECURSIVE FetchedItems(_)
FetchedItems(n) ==
    IF n = 0 THEN <<>>
    ELSE FetchedItems(n - 1) \o (IF pg_trace[n].outcome = "ok" THEN pg_trace[n].vpcs ELSE <<>>)

\* C23: the accumulator is at every moment, and the returned list at the end,
\* the item lists of the successfully fetched pages one after another in fetch
\* order, each page's items in the page's order, nothing dropped or added.
C23_ResultIsConcatenation ==
    /\ pg_pc \in {"loop", "done"} => all_vpcs = FetchedItems(Len(pg_trace))
    /\ pg_pc = "done" => pg_ret = FetchedItems(Len(pg_trace))

\* two pages of two and one items, then a failed request
C23_Witness ==
    /\ pg_pc = "done"
    /\ Len(pg_trace) = 3
    /\ pg_trace[3].outcome # "ok"
    /\ pg_ret = << <<1, 1>>, <<1, 2>>, <<2, 1>> >>

\* positions of href where a query parameter named "start" begins: "start="
\* right after "?" or "&"
StartParams(h) == {i \in 2..Len(h) : h[i] = "start=" /\ h[i - 1] \in {"?", "&"}}

\* the value of the first "start" query parameter of the response's next.href
QueryStart(next) ==
    IF next.kind # "href" \/ next.href = <<>> \/ StartParams(next.href) = {} THEN None
    ELSE LET i == CHOOSE k \in StartParams(next.href) : \A m \in StartParams(next.href) : k <= m
         IN Some(BeforeFirst(SubSeq(next.href, i + 1, Len(next.href)), "&"))

\* C24: after an answered request the cursor is the value of the "start" query
\* parameter of the response's next.href, and None when "next" is missing or
\* null, "href" is missing or empty, or the URL has no "start" parameter.
C24_CursorIsStartParameter ==
    (pg_trace # <<>> /\ pg_trace[Len(pg_trace)].outcome = "ok") =>
        cursor = QueryStart(pg_trace[Len(pg_trace)].next)

\* ------------------------------------------------------------------------
\* More claims on the workflow runner
\* ------------------------------------------------------------------------
\* the step whose command is the event at position p of wf_trace, when the
\* trace is run, sleep, run, sleep, ...
StepAt(p) == (p + 1) \div 2

\* C25: the commands of an execute() are those of steps 1, 2, ... in list
\* order, a step's command runs only when all steps before it are completed,
\* between the commands of two consecutive steps there is exactly one sleep,
\* and no sleep follows the last step or a failed step.
C25_SequentialWithDelays ==
    /\ \A p \in 1..Len(wf_trace) :
         /\ (p % 2 = 1) => /\ WfIsRun(wf_trace[p])
                           /\ StepAt(p) <= Len(steps)
                           /\ wf_trace[p].bru_file = steps[StepAt(p)].bru_file
                           /\ \A j \in 1..(StepAt(p) - 1) : steps[j].status = "completed"
         /\ (p % 2 = 0) => /\ wf_trace[p].ev \in {"sleep", "summary"}
                           /\ wf_trace[p].ev = "summary" => p = Len(wf_trace)
         /\ wf_trace[p].ev = "sleep" => /\ steps[StepAt(p)].status = "completed"
                                        /\ StepAt(p) < Len(steps)
    /\ \A k \in 1..Len(steps) :
         (StepFailed(k) \/ (k = Len(steps) /\ steps[k].run = wf_runs /\ steps[k].status = "completed"))
         => /\ Len(wf_trace) = 2 * k
            /\ wf_trace[2 * k].ev = "summary"
            /\ Len(SelectSeq(wf_trace, LAMBDA e : e.ev = "sleep")) = k - 1

\* a complete run of nine steps slept eight times
C25_Witness ==
    /\ wf_pc = "returned"
    /\ Len(steps) = 9
    /\ steps[9].status = "completed"
    /\ Len(WfRuns) = 9
    /\ Len(wf_trace) = 18
    /\ wf_trace[16].ev = "sleep"
    /\ wf_trace[18].ev = "summary"

\* the workflow field that holds the identifier of the step called name
NamedId(name) ==
    IF name = "create_vpc" THEN vpc_id
    ELSE IF name = "create_subnet" THEN subnet_id
    ELSE IF name = "create_security_group" THEN sg_id
    ELSE IF name = "create_instance" THEN instance_id
    ELSE IF name = "create_floating_ip" THEN floating_ip_id
    ELSE NoneS

ResourceSteps == {"create_vpc", "create_subnet", "create_security_group", "create_instance",
                  "create_floating_ip"}

\* C26: when the command of a step succeeds with a response that has a string
\* under "id", that string is recorded on the step and, for the five resource
\* steps, in the workflow field of the step's name, the four other identifier
\* fields staying as they were; a rule step changes no identifier field of the
\* workflow.
C26_IdentifierRecorded ==
    [][(wf_pc = "running" /\ steps'[wf_i].status = "completed") =>
         LET response == steps'[wf_i].result[1]
         IN (HasKey(response, "id") /\ GetKey(response, "id").t = "str") =>
                /\ steps'[wf_i].extracted_id = GetKey(response, "id").s
                /\ \A name \in ResourceSteps :
                     IF steps[wf_i].name = name
                     THEN NamedId(name)' = GetKey(response, "id").s
                     ELSE NamedId(name)' = NamedId(name)
                /\ steps[wf_i].name \notin ResourceSteps =>
                       UNCHANGED <<vpc_id, subnet_id, sg_id, instance_id, floating_ip_id,
                                   floating_ip_address>>
      ]_vars

\* a rule step recorded its identifier on the step while the security group's
\* identifier stayed
C26_Witness ==
    /\ Len(steps) >= 4
    /\ steps[4].run = wf_runs
    /\ steps[4].name = "add_ssh_rule"
    /\ steps[4].status = "completed"
    /\ steps[4].extracted_id = FreshId("add_ssh_rule", wf_runs)
    /\ steps[3].extracted_id = FreshId("create_security_group", wf_runs)
    /\ sg_id = FreshId("create_security_group", wf_runs)

\* ---- _print_summary, read in the state execute() returns in ----
IsSummary(e) == e.ev = "summary"
Summaries == SelectSeq(wf_trace, IsSummary)

\* line 493: sum(1 for s in self.steps if s.status == 'completed')
SummaryStepsCompleted == Cardinality({j \in 1..Len(steps) : steps[j].status = "completed"})

\* lines 496-498: one line per step with the icon of its status
StatusIcon(status) ==
    IF status = "completed" THEN "done" ELSE IF status = "failed" THEN "cross" ELSE "pause"
SummaryLines == [j \in 1..Len(steps) |-> StatusIcon(steps[j].status)]

\* line 504: the created resources and the next steps are printed
SummaryShowsResources == workflow_status = "completed"

\* what every summary says, whenever one was printed
SummaryContents ==
    Summaries # <<>> =>
        /\ wf_trace[Len(wf_trace)].ev = "summary"
        /\ WfIsRun(wf_trace[Len(wf_trace) - 1])
        /\ \/ StepFailed(Len(WfRuns))
           \/ (Len(WfRuns) = Len(steps) /\ steps[Len(steps)].status = "completed")
        /\ workflow_status = (IF wf_ret = "True" THEN "completed" ELSE "failed")
        /\ Len(SummaryLines) = Len(steps)
        /\ \A j \in 1..Len(steps) :
             /\ SummaryLines[j] = "done" <=> steps[j].status = "completed"
             /\ SummaryLines[j] = "cross" <=> steps[j].status = "failed"
        /\ SummaryShowsResources <=> wf_ret = "True"
        /\ SummaryShowsResources <=> \A j \in 1..Len(steps) : steps[j].status = "completed"
        /\ SummaryStepsCompleted = (IF wf_ret = "True" THEN Len(steps) ELSE Len(WfRuns) - 1)

ListsUpTo(S, n) == UNION {[1..k -> S] : k \in 0..n}

\* number of positions of the sequence s that hold x
Count(s, x) == Cardinality({i \in 1..Len(s) : s[i] = x})

\* ---- generate_inventory_report ----
\* lines 97-104: resource type and request file, in the order of the loop
Resources == << <<"vpcs", "vpc/list-vpcs.bru">>,
                <<"subnets", "vpc/subnets/list-subnets.bru">>,
                <<"instances", "vpc/instances/list-instances.bru">>,
                <<"security_groups", "vpc/security-groups/list-security-groups.bru">>,
                <<"floating_ips", "vpc/floating-ips/list-floating-ips.bru">>,
                <<"load_balancers", "vpc/load-balancers/list-load-balancers.bru">> >>

\* An item of a list response is told by what the cost estimate reads of it:
\* an instance by its profile name, a floating IP by whether it has a target.
Profiles == {"cx2-2x4", "cx2-4x8", "gx9-1x1"}
Targets == {"none", "bound"}
ItemKinds(type) ==
    IF type = "instances" THEN Profiles
    ELSE IF type = "floating_ips" THEN Targets
    ELSE {"item"}

\* what makes the body of the try block raise
InventoryErrors == {"CalledProcessError", "JSONDecodeError"}

InventoryInit ==
    /\ inv_pc = "idle"
    /\ inventory = <<>>
    /\ inv_trace = <<>>
    /\ costs = <<>>

\* line 94
GenerateInventoryReport ==
    /\ inv_pc = "idle"
    /\ inv_pc' = "loop"
    /\ inventory' = <<>>
    /\ inv_trace' = <<>>
    /\ UNCHANGED costs
    /\ UNCHANGED <<retryVars, pageVars, wfVars, topoVars, batchVars>>

\* after the entry of the k-th resource type: next iteration, or lines 119-122
InventoryAdvance(k) == inv_pc' = (IF k = Len(Resources) THEN "done" ELSE "loop")

\* lines 107-114: the request of the next resource type is answered
InventoryFetch ==
    /\ inv_pc = "loop"
    /\ LET k == Len(inv_trace) + 1
           type == Resources[k][1]
       IN /\ \E items \in ListsUpTo(ItemKinds(type), MaxItems) :
               /\ inv_trace' = Append(inv_trace, [bru_file |-> Resources[k][2],
                                                  outcome |-> "ok", items |-> items])
               /\ inventory' = Append(inventory, [type |-> type, count |-> Len(items),
                                                  items |-> items, error |-> NoneS])
          /\ InventoryAdvance(k)
    /\ UNCHANGED costs
    /\ UNCHANGED <<retryVars, pageVars, wfVars, topoVars, batchVars>>

\* lines 115-117: except Exception
InventoryFetchFailsStops ==
    /\ inv_pc = "loop"
    /\ LET k == Len(inv_trace) + 1
           type == Resources[k][1]
       IN /\ \E e \in InventoryErrors :
               /\ inv_trace' = Append(inv_trace, [bru_file |-> Resources[k][2],
                                                  outcome |-> e, items |-> <<>>])
               /\ inventory' = Append(inventory, [type |-> type, count |-> 0,
                                                  items |-> <<>>, error |-> Str(e)])
          /\ inv_pc' = "done"
    /\ UNCHANGED costs
    /\ UNCHANGED <<retryVars, pageVars, wfVars, topoVars, batchVars>>
InventoryFetchFails ==
    /\ inv_pc = "loop"
    /\ LET k == Len(inv_trace) + 1
           type == Resources[k][1]
       IN /\ \E e \in InventoryErrors :
               /\ inv_trace' = Append(inv_trace, [bru_file |-> Resources[k][2],
                                                  outcome |-> e, items |-> <<>>])
               /\ inventory' = Append(inventory, [type |-> type, count |-> 0,
                                                  items |-> <<>>, error |-> Str(e)])
          /\ InventoryAdvance(k)
    /\ UNCHANGED costs
    /\ UNCHANGED <<retryVars, pageVars, wfVars, topoVars, batchVars>>

\* line 120: sum(r['count'] for r in inventory.values())
RECURSIVE SumCounts(_, _)
SumCounts(inv, n) == IF n = 0 THEN 0 ELSE SumCounts(inv, n - 1) + inv[n].count
InventoryTotal == SumCounts(inventory, Len(inventory))

\* ---- estimate_vpc_costs ----
\* inventory.get(type, {}).get("items", [])
ItemsOf(inv, type) ==
    IF \E n \in 1..Len(inv) : inv[n].type = type
    THEN inv[CHOOSE n \in 1..Len(inv) : inv[n].type = type].items
    ELSE <<>>

\* lines 196-204, whole dollars a month
InstancePricing == ("cx2-2x4" :> 45) @@ ("cx2-4x8" :> 90) @@ ("cx2-8x16" :> 180) @@
                   ("bx2-2x8" :> 60) @@ ("bx2-4x16" :> 120) @@ ("mx2-4x32" :> 200) @@
                   ("mx2-8x64" :> 400)

\* line 209: instance_pricing.get(profile, 50.0)
InstancePriceNoDefault(profile) ==
    IF profile \in DOMAIN InstancePricing THEN InstancePricing[profile] ELSE 0
InstancePrice(profile) ==
    IF profile \in DOMAIN InstancePricing THEN InstancePricing[profile] ELSE 50

\* lines 207-210
RECURSIVE InstancesCost(_)
InstancesCost(instances) ==
    IF instances = <<>> THEN 0
    ELSE InstancePrice(Head(instances)) + InstancesCost(Tail(instances))

\* line 215: not f.get("target")
Unattached(f) == f = "none"

\* lines 187-233; estimated_data_gb * 0.09 is len(instances) * 100 * 9 / 100
EstimateCosts(inv) ==
    LET instances == ItemsOf(inv, "instances")
        fips == ItemsOf(inv, "floating_ips")
        lbs == ItemsOf(inv, "load_balancers")
        c_instances == InstancesCost(instances)
        c_fips == Len(SelectSeq(fips, Unattached)) * 10
        c_lbs == Len(lbs) * 100
        c_data == IF instances # <<>> THEN (Len(instances) * 100 * 9) \div 100 ELSE 0
    IN [instances |-> c_instances, floating_ips |-> c_fips, load_balancers |-> c_lbs,
        data_transfer |-> c_data, total |-> c_instances + c_fips + c_lbs + c_data]

\* estimate_vpc_costs(inventory) on the report just generated
EstimateVpcCosts ==
    /\ inv_pc = "done"
    /\ costs' = EstimateCosts(inventory)
    /\ inv_pc' = "costed"
    /\ UNCHANGED <<inventory, inv_trace>>
    /\ UNCHANGED <<retryVars, pageVars, wfVars, topoVars, batchVars>>

InventoryNext ==
    \/ GenerateInventoryReport
    \/ InventoryFetch
    \/ InventoryFetchFails
    \/ EstimateVpcCosts

InitInventory == InventoryInit /\ RetryIdle /\ PageIdle /\ WorkflowIdle /\ TopologyIdle /\ BatchIdle

SpecInventory == InitInventory /\ [][InventoryNext]_vars

\* ------------------------------------------------------------------------
\* Claims on the inventory report and the cost estimate
\* ------------------------------------------------------------------------
\* the items the list request of the k-th resource type answered with
Answered(k) == IF inv_trace[k].outcome = "ok" THEN inv_trace[k].items ELSE <<>>

\* C28: the total of the estimate is 45 for every cx2-2x4 instance, 90 for
\* every cx2-4x8 instance and 50 for every instance of a profile without a
\* price, plus 10 for every floating IP without a target and nothing for the
\* others, plus 100 for every load balancer, plus 0.09 * 100 = 9 for every
\* instance; two cx2-2x4 instances, one floating IP without target and one
\* load balancer give 218.
C28_CostTotal ==
    inv_pc = "costed" =>
        LET instances == Answered(3)
            fips == Answered(5)
            lbs == Answered(6)
        IN /\ costs.total = 45 * Count(instances, "cx2-2x4") + 90 * Count(instances, "cx2-4x8")
                            + 50 * Count(instances, "gx9-1x1")
                            + 10 * Count(fips, "none") + 0 * Count(fips, "bound")
                            + 100 * Len(lbs)
                            + 9 * Len(instances)
           /\ (instances = <<"cx2-2x4", "cx2-2x4">> /\ Count(fips, "none") = 1 /\ Len(lbs) = 1)
                  => costs.total = 90 + 10 + 100 + 18

\* the inventory of the example, with an attached floating IP besides
C28_Witness ==
    /\ inv_pc = "costed"
    /\ Answered(3) = <<"cx2-2x4", "cx2-2x4">>
    /\ Answered(5) = <<"bound", "none">>
    /\ Len(Answered(6)) = 1
    /\ costs.total = 218

\* C29: the report invokes the list request of each of the six resource types
\* once, in the fixed order, whatever fails; every recorded count is the
\* length of the recorded item list; a type whose request failed is recorded
\* with count 0, no items and an error; and the total is the sum of the counts,
\* the number of items the answered requests gave.
C29_InventoryComplete ==
    /\ inv_pc \in {"done", "costed"} => Len(inv_trace) = 6
    /\ Len(inv_trace) <= 6
    /\ Len(inventory) = Len(inv_trace)
    /\ \A k \in 1..Len(inv_trace) :
         /\ inv_trace[k].bru_file = Resources[k][2]
         /\ inventory[k].type = Resources[k][1]
         /\ inventory[k].count = Len(inventory[k].items)
         /\ inventory[k].items = Answered(k)
         /\ inv_trace[k].outcome # "ok" => /\ inventory[k].count = 0
                                           /\ inventory[k].items = <<>>
                                           /\ inventory[k].error # NoneS
    /\ inv_pc \in {"done", "costed"} =>
           InventoryTotal = Len(Answered(1)) + Len(Answered(2)) + Len(Answered(3))
                            + Len(Answered(4)) + Len(Answered(5)) + Len(Answered(6))

\* the second and the fifth request failed, the others were still made
C29_Witness ==
    /\ inv_pc = "done"
    /\ Len(inv_trace) = 6
    /\ inv_trace[2].outcome = "CalledProcessError"
    /\ inv_trace[5].outcome = "JSONDecodeError"
    /\ inventory[3].count = 2
    /\ inventory[6].count = 1
    /\ InventoryTotal = 3

\* ---- map_vpc_topology, export_topology_to_dot ----
\* The resources the four list requests can answer with: a VPC by its id, the
\* others by their id and the id of their VPC, an instance also by the id of
\* the subnet of its primary network interface.  "v3" is a VPC never listed.
VpcPool == {[id |-> "v1"], [id |-> "v2"]}
SubnetPool == {[id |-> "s1", vpc |-> "v1"], [id |-> "s2", vpc |-> "v2"], [id |-> "s3", vpc |-> "v3"]}
InstancePool == {[id |-> "i1", vpc |-> "v1", subnet |-> "s1"],
                 [id |-> "i2", vpc |-> "v1", subnet |-> "s1"],
                 [id |-> "i3", vpc |-> "v2", subnet |-> "s2"]}
SgPool == {[id |-> "g1", vpc |-> "v1"], [id |-> "g2", vpc |-> "v2"]}

\* in the order of the requests, lines 345-358
TopoPools == <<VpcPool, SubnetPool, InstancePool, SgPool>>

\* a list response names no resource twice
DistinctLists(S, n) ==
    {l \in ListsUpTo(S, n) : \A i, j \in 1..Len(l) : i # j => l[i] # l[j]}

\* lines 372, 376, 380: [r for r in all if r.get("vpc", {}).get("id") == vpc_id]
InVpc(all, id) == SelectSeq(all, LAMBDA r : r.vpc = id)

\* lines 361-381
BuildTopology(lists) ==
    [n \in 1..Len(lists[1]) |->
        [id |-> lists[1][n].id,
         subnets |-> InVpc(lists[2], lists[1][n].id),
         security_groups |-> InVpc(lists[4], lists[1][n].id),
         instances |-> InVpc(lists[3], lists[1][n].id)]]

\* line 342
MapVpcTopology ==
    /\ tp_pc = "idle"
    /\ tp_pc' = "fetch"
    /\ tp_lists' = <<>>
    /\ topology' = <<>>
    /\ UNCHANGED dot
    /\ UNCHANGED <<retryVars, pageVars, wfVars, invVars, batchVars>>

\* lines 345-358: the next list request is answered; after the fourth one the
\* topology is built and returned (361-399)
TopoFetch ==
    /\ tp_pc = "fetch"
    /\ \E l \in DistinctLists(TopoPools[Len(tp_lists) + 1], MaxListed) :
         /\ tp_lists' = Append(tp_lists, l)
         /\ IF Len(tp_lists) + 1 = Len(TopoPools)
            THEN /\ topology' = BuildTopology(Append(tp_lists, l))
                 /\ tp_pc' = "mapped"
            ELSE UNCHANGED <<topology, tp_pc>>
    /\ UNCHANGED dot
    /\ UNCHANGED <<retryVars, pageVars, wfVars, invVars, batchVars>>

\* lines 345-358: a list request fails; nothing catches the exception
TopoFetchFails ==
    /\ tp_pc = "fetch"
    /\ tp_pc' = "raised"
    /\ UNCHANGED <<tp_lists, topology, dot>>
    /\ UNCHANGED <<retryVars, pageVars, wfVars, invVars, batchVars>>

\* the lines of the DOT file that draw something
DotNode(id) == [kind |-> "node", a |-> id, b |-> ""]
DotEdge(a, b) == [kind |-> "edge", a |-> a, b |-> b]

RECURSIVE Flatten(_)
Flatten(ss) == IF ss = <<>> THEN <<>> ELSE Head(ss) \o Flatten(Tail(ss))

\* lines 439-446
InstanceLines(entry, subnet) ==
    Flatten([n \in 1..Len(entry.instances) |->
                IF entry.instances[n].subnet = subnet.id
                THEN <<DotNode(entry.instances[n].id), DotEdge(subnet.id, entry.instances[n].id)>>
                ELSE <<>>])

\* lines 431-446
SubnetLines(entry) ==
    Flatten([n \in 1..Len(entry.subnets) |->
                <<DotNode(entry.subnets[n].id), DotEdge(entry.id, entry.subnets[n].id)>>
                \o InstanceLines(entry, entry.subnets[n])])

\* lines 424-446
DotLines(top) ==
    Flatten([n \in 1..Len(top) |-> <<DotNode(top[n].id)>> \o SubnetLines(top[n])])

\* export_topology_to_dot(topology) on the topology just mapped
ExportTopologyToDot ==
    /\ tp_pc = "mapped"
    /\ dot' = DotLines(topology)
    /\ tp_pc' = "exported"
    /\ UNCHANGED <<tp_lists, topology>>
    /\ UNCHANGED <<retryVars, pageVars, wfVars, invVars, batchVars>>

TopologyNext ==
    \/ MapVpcTopology
    \/ TopoFetch
    \/ TopoFetchFails
    \/ ExportTopologyToDot

InitTopology == TopologyIdle /\ RetryIdle /\ PageIdle /\ WorkflowIdle /\ InventoryIdle /\ BatchIdle

SpecTopology == InitTopology /\ [][TopologyNext]_vars

\* ------------------------------------------------------------------------
\* Claims on the topology map
\* ------------------------------------------------------------------------
\* the listed resource r is in the sequence s
Listed(s, r) == \E n \in 1..Len(s) : s[n] = r

\* every listed subnet, security group and instance is in the entry of the
\* listed VPC of its vpc id and in no other entry
GroupedByVpc ==
    \A e \in 1..Len(topology) :
        /\ \A r \in SubnetPool :
             Listed(topology[e].subnets, r) <=> (Listed(tp_lists[2], r) /\ r.vpc = topology[e].id)
        /\ \A r \in InstancePool :
             Listed(topology[e].instances, r) <=> (Listed(tp_lists[3], r) /\ r.vpc = topology[e].id)
        /\ \A r \in SgPool :
             Listed(topology[e].security_groups, r) <=> (Listed(tp_lists[4], r) /\ r.vpc = topology[e].id)

\* every VPC, subnet and instance of the topology has one node in the DOT
\* file, every subnet one edge from its VPC, every instance one edge from its
\* subnet
DrawnOnce ==
    \A e \in 1..Len(topology) :
        /\ Count(dot, DotNode(topology[e].id)) = 1
        /\ \A n \in 1..Len(topology[e].subnets) :
             /\ Count(dot, DotNode(topology[e].subnets[n].id)) = 1
             /\ Count(dot, DotEdge(topology[e].id, topology[e].subnets[n].id)) = 1
        /\ \A n \in 1..Len(topology[e].instances) :
             /\ Count(dot, DotNode(topology[e].instances[n].id)) = 1
             /\ Count(dot, DotEdge(topology[e].instances[n].subnet, topology[e].instances[n].id)) = 1

\* C30: the topology has one entry per listed VPC, with each listed subnet,
\* security group and instance in the entry of its VPC and nowhere else, and
\* the exported DOT file has one node for every VPC, subnet and instance of
\* the topology and one edge VPC -> subnet and subnet -> instance for each.
C30_TopologyDrawn ==
    /\ tp_pc \in {"mapped", "exported"} =>
           /\ Len(topology) = Len(tp_lists[1])
           /\ \A e \in 1..Len(topology) : topology[e].id = tp_lists[1][e].id
           /\ GroupedByVpc
    /\ tp_pc = "exported" => DrawnOnce

\* ------------------------------------------------------------------------
\* Termination of a call
\* ------------------------------------------------------------------------
\* a step of the call in progress: the outcome of an attempt, or the exit of
\* the loop
RetryStep ==
    \/ AttemptOk
    \/ AttemptProcessError
    \/ AttemptRateLimit
    \/ AttemptJSONError
    \/ AttemptAuthError
    \/ AttemptUncaught
    \/ LoopExit

\* the external command and the sleeps return, so a call in progress goes on
SpecRetryLive == InitRetry /\ [][RetryNext]_vars /\ WF_vars(RetryStep)

\* C31: whatever the outcomes of its attempts, a call never runs the request
\* command more than max_retries + 1 times, and a call in progress ends: it
\* returns a response or raises.
C31_CallTerminates ==
    /\ [](Attempts <= max_retries + 1)
    /\ (rq_pc = "loop") ~> (rq_pc = "done")

\* a call that used all its attempts on a mix of failures and raised
C31_Witness ==
    /\ rq_pc = "done"
    /\ max_retries = 2
    /\ Attempts = 3
    /\ Runs[1].outcome = "AuthenticationError"
    /\ Runs[2].outcome = "RateLimitError"
    /\ Runs[3].outcome = "CalledProcessError"
    /\ rq_result = "BrunoAPIError"

\* C32: the statuses of the steps are always some completed steps, then at
\* most one running or failed step, then pending steps only: every step before
\* a completed, running or failed step is completed, every step after a
\* running, failed or pending step is pending, and the running or failed step
\* is the current step.
C32_StatusPrefix ==
    \A j \in 1..Len(steps) :
        /\ steps[j].status \in {"completed", "running", "failed"} =>
               \A i \in 1..(j - 1) : steps[i].status = "completed"
        /\ steps[j].status \in {"running", "failed", "pending"} =>
               \A i \in (j + 1)..Len(steps) : steps[i].status = "pending"
        /\ steps[j].status \in {"running", "failed"} => j = current_step_index

\* step 5 of 9 is running, four steps are completed before it
C32_Witness ==
    /\ wf_pc = "running"
    /\ Len(steps) = 9
    /\ steps[5].status = "running"
    /\ steps[4].status = "completed"
    /\ steps[6].status = "pending"
    /\ current_step_index = 5

C34_FailureReturnsAccumulated ==
    \A i \in 1..Len(pg_trace) :
        pg_trace[i].outcome # "ok" =>
            /\ i = Len(pg_trace)
            /\ pg_pc = "done"
            /\ pg_ret = FetchedItems(i - 1)
            /\ all_vpcs = FetchedItems(i - 1)

\* the second request printed no JSON: the two items of the first page are
\* returned
C34_Witness ==
    /\ pg_pc = "done"
    /\ Len(pg_trace) = 2
    /\ pg_trace[2].outcome = "JSONDecodeError"
    /\ pg_ret = << <<1, 1>>, <<1, 2>> >>

\* C35: a successful attempt is the last event of its call, which returns its
\* response; every sleep comes right after a failed attempt and, once the call
\* is over, before another attempt; a call whose attempts all failed with a
\* transport failure has slept max_retries times and ends with its last
\* attempt, not with a sleep.
C35_SleepsOnlyBetweenAttempts ==
    /\ \A n \in RunsOf("ok") :
         /\ n = Len(rq_trace)
         /\ rq_pc = "done"
         /\ rq_result = "response"
    /\ \A p \in 1..Len(rq_trace) :
         IsSleep(rq_trace[p]) =>
             /\ p > 1
             /\ IsRun(rq_trace[p - 1])
             /\ rq_trace[p - 1].outcome # "ok"
             /\ p < Len(rq_trace) => IsRun(rq_trace[p + 1])
             /\ rq_pc = "done" => p < Len(rq_trace)
    /\ (rq_pc = "done" /\ Attempts > 0 /\ AllRuns("CalledProcessError")) =>
           /\ Len(Sleeps) = max_retries
           /\ Attempts = max_retries + 1
           /\ IsRun(rq_trace[Len(rq_trace)])

\* the second attempt succeeded after one sleep and nothing followed it
C35_Witness ==
    /\ rq_pc = "done"
    /\ max_retries = 2
    /\ Attempts = 2
    /\ Runs[1].outcome = "CalledProcessError"
    /\ Runs[2].outcome = "ok"
    /\ Len(Sleeps) = 1
    /\ rq_result = "response"
    /\ rq_trace[Len(rq_trace)] = Runs[2]

\* ------------------------------------------------------------------------
\* Authentication failures
\* ------------------------------------------------------------------------
IsAuthEvent(e) == e.ev = "auth"
\* the call began with an authenticate() whose IAM command failed
InitialAuthFailed ==
    /\ rq_trace # <<>>
    /\ IsAuthEvent(rq_trace[1])
    /\ ~rq_trace[1].force
    /\ rq_trace[1].outcome # "ok"

\* C36: when the authentication at the start of a call fails, the call is over
\* with AuthenticationError and the failed authentication is all it did: the
\* request command was not run, nothing was retried, nothing was slept.
C36_InitialAuthFailurePropagates ==
    InitialAuthFailed =>
        /\ rq_pc = "done"
        /\ rq_result = "AuthenticationError"
        /\ Len(rq_trace) = 1
        /\ Attempts = 0
        /\ Len(Sleeps) = 0
        /\ retry_count = 0

\* the first call of a client that allows two retries failed to authenticate
C36_Witness ==
    /\ InitialAuthFailed
    /\ rq_calls = 1
    /\ max_retries = 2
    /\ rq_pc = "done"
    /\ rq_result = "AuthenticationError"
    /\ token_expires_at = NoTime

\* the step ran the IAM command of authenticate(), at the start of a call or
\* forced after a rejected attempt
AuthRan ==
    /\ CallStarts \/ Len(rq_trace') > Len(rq_trace)
    /\ rq_trace' # <<>>
    /\ IsAuthEvent(rq_trace'[Len(rq_trace')])
AuthOutcome == rq_trace'[Len(rq_trace')].outcome

\* C37: an authenticate() whose IAM command fails, forced or not, leaves
\* token_expires_at and last_auth_time as they were; the two fields change
\* only in a step whose authenticate() succeeded, which sets them to the time
\* of authentication and that time + 3600 s.
C37_FailedAuthKeepsToken ==
    [][/\ (AuthRan /\ AuthOutcome # "ok") =>
              UNCHANGED <<token_expires_at, last_auth_time>>
       /\ ~(UNCHANGED <<token_expires_at, last_auth_time>>) =>
              /\ AuthRan
              /\ AuthOutcome = "ok"
              /\ last_auth_time' = now
              /\ token_expires_at' = now + TokenLifetime
      ]_vars

\* a second call found the token of the first one due for refresh, failed at
\* the IAM command and left the old expiry in place
C37_Witness ==
    /\ rq_calls = 2
    /\ rq_pc = "done"
    /\ InitialAuthFailed
    /\ rq_result = "AuthenticationError"
    /\ token_expires_at # NoTime
    /\ token_expires_at = last_auth_time + TokenLifetime
    /\ now >= token_expires_at - RefreshWindow

\* ------------------------------------------------------------------------
\* The value execute() returns
\* ------------------------------------------------------------------------
AllStepsCompleted ==
    /\ steps # <<>>
    /\ \A j \in 1..Len(steps) : steps[j].run = wf_runs /\ steps[j].status = "completed"

\* C38: when execute() has returned, it returned True exactly when the
\* workflow status is 'completed', and that is exactly when every step of the
\* sequence built by this run is 'completed'; otherwise it returned False and
\* the workflow status is 'failed'.
C38_ReturnMatchesStatus ==
    wf_pc = "returned" =>
        /\ wf_ret \in {"True", "False"}
        /\ wf_ret = "True" <=> workflow_status = "completed"
        /\ workflow_status = "completed" <=> AllStepsCompleted
        /\ wf_ret = "False" => workflow_status = "failed"

\* a run without floating IP completed all its steps and returned True
C38_Witness ==
    /\ wf_pc = "returned"
    /\ wf_ret = "True"
    /\ workflow_status = "completed"
    /\ ~wf_cfg.create_floating_ip
    /\ AllStepsCompleted
    /\ wf_runs = 1

\* ------------------------------------------------------------------------
\* python_automation.py: batch_create_instances
\* ------------------------------------------------------------------------
\* instance_name = f"{name_prefix}-{i:02d}" with the default prefix, for i < 100
InstanceName(i) == <<"batch-instance", "-", i \div 10, i % 10>>

\* what the create request can print: an object with a string id, with an
\* empty id, with a null id or without id, or JSON that is not an object
BatchIds == {"i-1", "i-2"}
JList == [t |-> "list", s |-> NoneS, kv |-> <<>>]
BatchBodies ==
    {JDict(<< <<"id", JStr(Str(x))>>, <<"name", JStr(Str("n"))>> >>) : x \in BatchIds \cup {""}}
        \cup {JDict(<< <<"id", JNull>> >>), JDict(<< <<"name", JStr(Str("n"))>> >>), JList}

\* response.get(key) of a dictionary whose values are strings or null
DictGet(d, k) ==
    IF HasKey(d, k)
    THEN (IF GetKey(d, k).t = "null" THEN NoneS ELSE GetKey(d, k).s)
    ELSE NoneS

\* exceptions of run_bruno: the command exits non-zero or prints no JSON
BatchErrors == {"CalledProcessError", "JSONDecodeError"}

CreateEvent(i, outcome, id) ==
    [ev |-> "create", bru_file |-> "vpc/instances/create-instance.bru", i |-> i,
     name |-> InstanceName(i), outcome |-> outcome, id |-> id]
BatchSleepEvent == [ev |-> "sleep", bru_file |-> "", i |-> 0, name |-> <<>>,
                    outcome |-> "ok", id |-> NoneS]

\* lines 498-501: instance_ids = [] and the loop over range(1, count + 1)
BatchCreateInstances ==
    /\ bt_pc = "idle"
    /\ \E count \in 0..MaxCount : bt_count' = count
    /\ bt_i' = 1
    /\ instance_ids' = <<>>
    /\ bt_trace' = <<>>
    /\ bt_pc' = "loop"
    /\ UNCHANGED bt_ret
    /\ UNCHANGED <<retryVars, pageVars, wfVars, invVars, topoVars>>

\* lines 506-529: the request returns an object; its id, when truthy, is
\* appended; then the delay before the next creation
BatchCreate ==
    /\ bt_pc = "loop"
    /\ bt_i <= bt_count
    /\ \E body \in BatchBodies :
         /\ body.t = "dict"
         /\ LET id == DictGet(body, "id")
            IN /\ instance_ids' = IF Truthy(id) THEN Append(instance_ids, id) ELSE instance_ids
               /\ bt_trace' = bt_trace \o <<CreateEvent(bt_i, "ok", id)>>
                                \o (IF bt_i < bt_count THEN <<BatchSleepEvent>> ELSE <<>>)
    /\ bt_i' = bt_i + 1
    /\ UNCHANGED <<bt_pc, bt_count, bt_ret>>
    /\ UNCHANGED <<retryVars, pageVars, wfVars, invVars, topoVars>>

\* A variant that leaves the loop at the first exception.
BatchCreateFailsStops ==
    /\ bt_pc = "loop"
    /\ bt_i <= bt_count
    /\ \/ \E e \in BatchErrors : bt_trace' = Append(bt_trace, CreateEvent(bt_i, e, NoneS))
       \/ \E body \in BatchBodies :
            /\ body.t # "dict"
            /\ bt_trace' = Append(bt_trace, CreateEvent(bt_i, "AttributeError", NoneS))
    /\ bt_pc' = "done"
    /\ bt_ret' = instance_ids
    /\ UNCHANGED <<bt_i, bt_count, instance_ids>>
    /\ UNCHANGED <<retryVars, pageVars, wfVars, invVars, topoVars>>

\* lines 531-532: except Exception, raised by run_bruno or by .get on a
\* response that is not an object; the loop goes on with the next i
BatchCreateFails ==
    /\ bt_pc = "loop"
    /\ bt_i <= bt_count
    /\ \/ \E e \in BatchErrors : bt_trace' = Append(bt_trace, CreateEvent(bt_i, e, NoneS))
       \/ \E body \in BatchBodies :
            /\ body.t # "dict"
            /\ bt_trace' = Append(bt_trace, CreateEvent(bt_i, "AttributeError", NoneS))
    /\ bt_i' = bt_i + 1
    /\ UNCHANGED <<bt_pc, bt_count, instance_ids, bt_ret>>
    /\ UNCHANGED <<retryVars, pageVars, wfVars, invVars, topoVars>>

\* lines 534-537: the loop is over, return instance_ids
BatchReturn ==
    /\ bt_pc = "loop"
    /\ bt_i > bt_count
    /\ bt_pc' = "done"
    /\ bt_ret' = instance_ids
    /\ UNCHANGED <<bt_count, bt_i, instance_ids, bt_trace>>
    /\ UNCHANGED <<retryVars, pageVars, wfVars, invVars, topoVars>>

BatchNext ==
    \/ BatchCreateInstances
    \/ BatchCreate
    \/ BatchCreateFails
    \/ BatchReturn

InitBatch == BatchIdle /\ RetryIdle /\ PageIdle /\ WorkflowIdle /\ InventoryIdle /\ TopologyIdle

SpecBatch == InitBatch /\ [][BatchNext]_vars

IsCreate(e) == e.ev = "create"
Creates == SelectSeq(bt_trace, IsCreate)
GaveId(e) == e.ev = "create" /\ e.outcome = "ok" /\ e.id # NoneS /\ e.id # Str("")
\* the ids of the creations that gave one, in the order of the creations
CreatedIds == [n \in 1..Len(SelectSeq(bt_trace, GaveId)) |-> SelectSeq(bt_trace, GaveId)[n].id]

\* C39: the n-th invocation of the create request is the one for instance n,
\* whatever the earlier ones gave; when the function has returned there were
\* exactly count invocations, and the returned list holds the ids of the
\* creations that succeeded and gave an id, in creation order, so at most
\* count entries.
C39_BatchCreatesAll ==
    /\ \A n \in 1..Len(Creates) :
         /\ Creates[n].i = n
         /\ Creates[n].name = InstanceName(n)
         /\ n <= bt_count
    /\ bt_pc = "loop" => instance_ids = CreatedIds
    /\ bt_pc = "done" =>
         /\ Len(Creates) = bt_count
         /\ bt_ret = CreatedIds
         /\ Len(bt_ret) <= bt_count

\* of three creations the first raised, the second gave an id and the third
\* answered without id: all three were invoked and one id is returned
C39_Witness ==
    /\ bt_pc = "done"
    /\ bt_count = 3
    /\ Len(Creates) = 3
    /\ Creates[1].outcome = "CalledProcessError"
    /\ GaveId(Creates[2])
    /\ Creates[3].outcome = "ok" /\ Creates[3].id = NoneS
    /\ bt_ret = <<Creates[2].id>>

====
